---- MODULE Spec2Model ----
(***************************************************************************)
(* Verification model of the HAP link simulation scenarios.                *)
(*                                                                         *)
(* The following parts of the scenarios are modelled:                      *)
(*   - the per-link diagnostic accountant of hap-sat-hap-simple.cc         *)
(*     (g_macToNodeId, g_flowStats, the three Phy trace callbacks and the  *)
(*     per-flow link report printed by main);                              *)
(*   - the periodic UpdateHapState task of the moving-platform scenarios   *)
(*     (velocity and antenna update of the platform at every 0.1 s tick,   *)
(*     its null-handle test and its rescheduling), with CalculateAngle     *)
(*     and CalculateDirectionalGain;                                       *)
(*   - the atmospheric losses, the channel reference losses and the        *)
(*     satellite link budget computed by main of hap-sat-hap-simple.cc;    *)
(*   - the end-to-end reports over the FlowMonitor statistics;             *)
(*   - the traffic source GenerateTraffic and the stop of the simulation.  *)
(*                                                                         *)
(* The doubles of the moving-platform scenarios are modelled in fixed      *)
(* point (positions in centimetres, speeds in centimetres per second,      *)
(* angles and cosines to eight decimals, gains in hundredths of a dB);     *)
(* the doubles of the link budget are modelled as binary floating-point    *)
(* numbers with a significand of 53 bits; the loss ratio is kept as an     *)
(* exact fraction <<numerator, denominator>>.                              *)
(***************************************************************************)
EXTENDS Integers, Sequences, FiniteSets, TLC

VARIABLES
    pc,             \* position of main in the Ka-band scenario
    g_macToNodeId,  \* std::map<Mac48Address, uint32_t>
    g_flowStats,    \* std::map<pair<uint32_t,uint32_t>, FlowLinkStats>
    traced,         \* devices whose Phy trace sources are connected
    flowKeys,       \* the report's vector of flow keys
    report,         \* the rows printed by the per-flow link report
    air,            \* frames sent on the single link and not yet resolved
    linkSent,       \* number of frames put on the single link
    hapPos,         \* position of the platform at the last tick (cm)
    hapVel,         \* velocity last set on the platform (cm/s)
    simNow,         \* simulated time, in ticks of 0.1 s
    tickQueue,      \* times of the pending UpdateHapState events, in scheduling order
    simStopped,     \* TRUE once the stop time of the simulation is reached
    variant,        \* which moving-platform program runs ("unset" before main)
    g_maxAntennaGain, \* maximum antenna gain (hundredths of a dB)
    posNodeA,       \* position of ground station A (cm)
    posNodeB,       \* position of ground station B (cm)
    phyHapA,        \* TxGain and RxGain of the platform's PHY towards A
    phyHapB,        \* TxGain and RxGain of the platform's PHY towards B
    tickCount,      \* number of UpdateHapState invocations executed
    handles,        \* the global handles that are set (non-null)
    hapOrientation, \* Orientation of the platform's two antennas (hundredths of a degree)
    call,           \* the last call of a function studied on its own, and its result
    budget,         \* the losses and the link budget computed by main (Ka-band)
    traffic         \* the traffic source: the simulator's events and the socket

plaVars == <<pc, g_macToNodeId, g_flowStats, traced, flowKeys, report>>
linkVars == <<air, linkSent>>
hapVars == <<hapPos, hapVel, simNow, tickQueue, simStopped, variant,
             g_maxAntennaGain, posNodeA, posNodeB, phyHapA, phyHapB, tickCount,
             handles, hapOrientation>>
fnVars == <<call, budget, traffic>>
vars == <<pc, g_macToNodeId, g_flowStats, traced, flowKeys, report,
          air, linkSent, hapPos, hapVel, simNow, tickQueue, simStopped,
          variant, g_maxAntennaGain, posNodeA, posNodeB, phyHapA, phyHapB,
          tickCount, handles, hapOrientation, call, budget, traffic>>

----------------------------------------------------------------------------
(* Bounds of the model *)

\* largest total of counted events in the general accountant specification
MaxEvents == 2

\* largest number of frames put on the single point-to-point link
MaxLinkFrames == 10

\* largest number of unresolved frames on the single link
MaxInFlight == 1

\* largest number of packets of one flow in the end-to-end reports
MaxFlowPackets == 3

\* largest numPackets of the traffic source in the general traffic
\* specification
MaxPackets == 5

----------------------------------------------------------------------------
(* Node identifiers and link-layer addresses *)

\* enum NodeIndices
HAP_1 == 0
UT_1_1 == 1
UT_1_2 == 2
HAP_2 == 3
UT_2_1 == 4
UT_2_2 == 5
SATELLITE == 6

NodeIds == {HAP_1, UT_1_1, UT_1_2, HAP_2, UT_2_1, UT_2_2, SATELLITE}

\* Mac48Address::Allocate gives consecutive addresses 00:00:00:00:00:0i
Allocate(i) == <<0, 0, 0, 0, 0, i>>

\* a default-constructed Mac48Address (header field never written)
ZeroMac == <<0, 0, 0, 0, 0, 0>>

BroadcastMac == <<255, 255, 255, 255, 255, 255>>

\* an IPv4 multicast group address 01:00:5e:00:00:01
MulticastMac == <<1, 0, 94, 0, 0, 1>>

\* Mac48Address::IsGroup: lowest bit of the first octet
IsGroup(a) == a[1] % 2 = 1

\* Mac48Address::IsBroadcast
IsBroadcast(a) == a = BroadcastMac

\* the devices of allDevices, in the order of the container (wifiDevicesA,
\* wifiDevicesB, allSatDevices): the node they sit on, their address (the
\* addresses are allocated in the order of the Install calls), the PHY
\* helper they were installed with, which fixes their channel, and whether
\* DynamicCast<WifiNetDevice> succeeds
Devices ==
    << [node |-> HAP_1,     mac |-> Allocate(1),  phy |-> "wifiPhyA",          wifi |-> TRUE],
       [node |-> UT_1_1,    mac |-> Allocate(2),  phy |-> "wifiPhyA",          wifi |-> TRUE],
       [node |-> UT_1_2,    mac |-> Allocate(3),  phy |-> "wifiPhyA",          wifi |-> TRUE],
       [node |-> HAP_2,     mac |-> Allocate(4),  phy |-> "wifiPhyB",          wifi |-> TRUE],
       [node |-> UT_2_1,    mac |-> Allocate(5),  phy |-> "wifiPhyB",          wifi |-> TRUE],
       [node |-> UT_2_2,    mac |-> Allocate(6),  phy |-> "wifiPhyB",          wifi |-> TRUE],
       [node |-> HAP_1,     mac |-> Allocate(7),  phy |-> "wifiPhySatUp_H1",   wifi |-> TRUE],
       [node |-> SATELLITE, mac |-> Allocate(8),  phy |-> "wifiPhySatUp_H1",   wifi |-> TRUE],
       [node |-> HAP_2,     mac |-> Allocate(11), phy |-> "wifiPhySatUp_H2",   wifi |-> TRUE],
       [node |-> SATELLITE, mac |-> Allocate(12), phy |-> "wifiPhySatUp_H2",   wifi |-> TRUE],
       [node |-> SATELLITE, mac |-> Allocate(9),  phy |-> "wifiPhySatDown_H1", wifi |-> TRUE],
       [node |-> HAP_1,     mac |-> Allocate(10), phy |-> "wifiPhySatDown_H1", wifi |-> TRUE],
       [node |-> SATELLITE, mac |-> Allocate(13), phy |-> "wifiPhySatDown_H2", wifi |-> TRUE],
       [node |-> HAP_2,     mac |-> Allocate(14), phy |-> "wifiPhySatDown_H2", wifi |-> TRUE] >>

DeviceIds == DOMAIN Devices

\* the addresses of the interfaces on the channel of device dev
ChannelAddresses(dev) ==
    {Devices[i].mac : i \in {j \in DeviceIds : Devices[j].phy = Devices[dev].phy}}

\* the destinations a frame on the channel of device dev can carry: an
\* interface of the channel, a group address, or no address at all
AddressesAt(dev) == ChannelAddresses(dev) \cup {ZeroMac, BroadcastMac, MulticastMac}

\* the packets the trace sources of device dev can fire for, as the
\* callbacks see them: whether PeekHeader succeeds and the address fields the
\* WifiMacHeader then holds; the source is an interface of the channel, or
\* ZeroMac for a frame without that field
PacketsAt(dev) ==
    [parses : BOOLEAN, addr1 : AddressesAt(dev),
     addr2 : ChannelAddresses(dev) \cup {ZeroMac}]

\* the frames device dev puts on the air: it is their source, unless they
\* carry no source address, and it does not address a frame to itself
SentBy(dev) ==
    {p \in PacketsAt(dev) : /\ p.addr1 # Devices[dev].mac
                            /\ p.addr2 \in {Devices[dev].mac, ZeroMac}}

\* the frames device dev hears: those of the other interfaces of its channel
HeardBy(dev) == {p \in PacketsAt(dev) : p.addr2 # Devices[dev].mac}

\* the PHY helpers whose devices' events are explored: the access link of
\* group 1 and the uplink of HAP_1, the first two hops of the traffic from
\* UT_1_1 to UT_2_1
ExploredPhys == {"wifiPhyA", "wifiPhySatUp_H1"}

ExploredDevices == {i \in DeviceIds : Devices[i].phy \in ExploredPhys}

----------------------------------------------------------------------------
(* FlowLinkStats and the two global maps *)

FlowLinkStats == [txPackets |-> 0, rxPackets |-> 0, rxDropped |-> 0]

\* std::map::operator[] : the entry of key k, value-initialised when absent
Entry(stats, k) == IF k \in DOMAIN stats THEN stats[k] ELSE FlowLinkStats

\* variant of Increment: the event is counted twice (the handler connected
\* twice to one trace source)
Increment_Twice(stats, k, field) ==
    [x \in (DOMAIN stats) \cup {k} |->
        IF x = k
        THEN [(IF k \in DOMAIN stats THEN stats[k] ELSE FlowLinkStats) EXCEPT ![field] = @ + 2]
        ELSE stats[x]]

\* variant of Increment: the entry is overwritten by a fresh FlowLinkStats
\* carrying only this event
Increment_Overwrite(stats, k, field) ==
    [x \in (DOMAIN stats) \cup {k} |->
        IF x = k
        THEN [FlowLinkStats EXCEPT ![field] = 1]
        ELSE stats[x]]

\* g_flowStats[k].field++
Increment(stats, k, field) ==
    [x \in (DOMAIN stats) \cup {k} |->
        IF x = k
        THEN [Entry(stats, k) EXCEPT ![field] = @ + 1]
        ELSE stats[x]]

\* the loop of PopulateMacTable over a device container, from index i on
RECURSIVE PopulateFrom(_, _)
PopulateFrom(table, i) ==
    IF i > Len(Devices) THEN table
    ELSE LET d == Devices[i]
             next == IF d.wifi
                     THEN [a \in (DOMAIN table) \cup {d.mac} |->
                              IF a = d.mac THEN d.node ELSE table[a]]
                     ELSE table
         IN PopulateFrom(next, i + 1)

\* number of counted events in a statistics map
RECURSIVE TotalOver(_, _)
TotalOver(stats, keys) ==
    IF keys = {} THEN 0
    ELSE LET k == CHOOSE x \in keys : TRUE
         IN stats[k].txPackets + stats[k].rxPackets + stats[k].rxDropped
            + TotalOver(stats, keys \ {k})

Total(stats) == TotalOver(stats, DOMAIN stats)

----------------------------------------------------------------------------
(* The three trace callbacks, as functions from the maps before the call   *)
(* to g_flowStats after it                                                 *)

\* variant of PhyTxBeginCallback: source and destination swapped in the key
PhyTxBeginCallback_SwappedKey(stats, table, dev, packet) ==
    LET destAddr == packet.addr1
    IN IF IsGroup(destAddr) THEN stats
       ELSE IF destAddr \in DOMAIN table
            THEN Increment(stats, <<table[destAddr], Devices[dev].node>>, "txPackets")
            ELSE stats

\* variant of PhyTxBeginCallback: the key holds the sending interface
\* instead of the node it sits on
PhyTxBeginCallback_ByInterface(stats, table, dev, packet) ==
    LET destAddr == packet.addr1
    IN IF IsGroup(destAddr) THEN stats
       ELSE IF destAddr \in DOMAIN table
            THEN Increment(stats, <<dev, table[destAddr]>>, "txPackets")
            ELSE stats

PhyTxBeginCallback(stats, table, dev, packet) ==
    LET destAddr == packet.addr1
    IN IF IsGroup(destAddr) THEN stats
       ELSE IF destAddr \in DOMAIN table
            THEN Increment(stats, <<Devices[dev].node, table[destAddr]>>, "txPackets")
            ELSE stats

\* variant of PhyRxDropCallback: the result of PeekHeader is not tested
PhyRxDropCallback_Unparsed(stats, table, dev, packet) ==
    LET srcAddr == packet.addr2
    IN IF srcAddr \in DOMAIN table
       THEN Increment(stats, <<table[srcAddr], Devices[dev].node>>, "rxDropped")
       ELSE stats

\* variant of PhyRxDropCallback: the source is looked up with
\* g_macToNodeId[srcAddr], which yields node 0 for an unknown address
PhyRxDropCallback_DefaultNode(stats, table, dev, packet) ==
    IF packet.parses
    THEN LET srcAddr == packet.addr2
             srcId == IF srcAddr \in DOMAIN table THEN table[srcAddr] ELSE 0
         IN Increment(stats, <<srcId, Devices[dev].node>>, "rxDropped")
    ELSE stats

\* variant of PhyRxDropCallback: only frames addressed to the receiving
\* interface or to the broadcast address are counted, as in PhyRxEndCallback
PhyRxDropCallback_AddressedOnly(stats, table, dev, packet) ==
    IF packet.parses
    THEN LET destAddr == packet.addr1
             srcAddr == packet.addr2
         IN IF (destAddr = Devices[dev].mac \/ IsBroadcast(destAddr))
               /\ srcAddr \in DOMAIN table
            THEN Increment(stats, <<table[srcAddr], Devices[dev].node>>, "rxDropped")
            ELSE stats
    ELSE stats

PhyRxDropCallback(stats, table, dev, packet) ==
    IF packet.parses
    THEN LET srcAddr == packet.addr2
         IN IF srcAddr \in DOMAIN table
            THEN Increment(stats, <<table[srcAddr], Devices[dev].node>>, "rxDropped")
            ELSE stats
    ELSE stats

\* variant of PhyRxEndCallback: the destination address is not compared with
\* the receiving interface's own address (overheard frames are counted)
PhyRxEndCallback_Overheard(stats, table, dev, packet) ==
    IF packet.parses
    THEN LET srcAddr == packet.addr2
         IN IF srcAddr \in DOMAIN table
            THEN Increment(stats, <<table[srcAddr], Devices[dev].node>>, "rxPackets")
            ELSE stats
    ELSE stats

\* variant of PhyRxEndCallback: the entry is obtained with
\* g_flowStats[key] before the destination address is tested
PhyRxEndCallback_EntryFirst(stats, table, dev, packet) ==
    IF packet.parses
    THEN LET destAddr == packet.addr1
             srcAddr == packet.addr2
         IN IF srcAddr \in DOMAIN table
            THEN LET key == <<table[srcAddr], Devices[dev].node>>
                 IN IF destAddr = Devices[dev].mac \/ IsBroadcast(destAddr)
                    THEN Increment(stats, key, "rxPackets")
                    ELSE [k \in (DOMAIN stats) \cup {key} |-> Entry(stats, k)]
            ELSE stats
    ELSE stats

PhyRxEndCallback(stats, table, dev, packet) ==
    IF packet.parses
    THEN LET destAddr == packet.addr1
             myAddr == Devices[dev].mac
         IN IF destAddr = myAddr \/ IsBroadcast(destAddr)
            THEN LET srcAddr == packet.addr2
                 IN IF srcAddr \in DOMAIN table
                    THEN Increment(stats, <<table[srcAddr], Devices[dev].node>>, "rxPackets")
                    ELSE stats
            ELSE stats
    ELSE stats

----------------------------------------------------------------------------
(* The per-flow link report of main *)

\* operator< of std::pair<uint32_t, uint32_t>
KeyLess(a, b) == a[1] < b[1] \/ (a[1] = b[1] /\ a[2] < b[2])

\* iteration order of a std::map over the key set S: ascending keys
RECURSIVE MapOrder(_)
MapOrder(S) ==
    IF S = {} THEN <<>>
    ELSE LET first == CHOOSE k \in S : \A o \in S \ {k} : KeyLess(k, o)
         IN <<first>> \o MapOrder(S \ {first})

\* variant of HasTraffic: only flows that transmitted are listed
HasTraffic_TxOnly(stats) == stats.txPackets > 0

\* the filter of the first report loop
HasTraffic(stats) ==
    stats.txPackets > 0 \/ stats.rxPackets > 0 \/ stats.rxDropped > 0

\* the first report loop: push_back of every key that passes the filter
CollectKeys(stats) ==
    SelectSeq(MapOrder(DOMAIN stats), LAMBDA k : HasTraffic(stats[k]))

\* insertion of key k into the ascending sequence s
RECURSIVE InsertKey(_, _)
InsertKey(s, k) ==
    IF s = <<>> THEN <<k>>
    ELSE IF KeyLess(k, Head(s)) THEN <<k>> \o s
    ELSE <<Head(s)>> \o InsertKey(Tail(s), k)

\* std::sort(flowKeys.begin(), flowKeys.end())
RECURSIVE SortKeys(_)
SortKeys(s) ==
    IF s = <<>> THEN <<>> ELSE InsertKey(SortKeys(Tail(s)), Head(s))

\* variant of LossRatio: the loss is taken as transmitted minus received
LossRatio_FromReceived(stats) ==
    IF stats.txPackets > 0
    THEN <<(stats.txPackets - stats.rxPackets) * 100, stats.txPackets>>
    ELSE <<0, 1>>

\* lossRatio of one flow, as the fraction <<numerator, denominator>> of a
\* percentage: ((double)rxDropped / txPackets) * 100.0, or 0.0
LossRatio(stats) ==
    IF stats.txPackets > 0
    THEN <<stats.rxDropped * 100, stats.txPackets>>
    ELSE <<0, 1>>

\* one printed row of the report
ReportRow(stats, key) ==
    LET st == Entry(stats, key)
    IN [srcId |-> key[1], dstId |-> key[2],
        txPackets |-> st.txPackets, rxPackets |-> st.rxPackets,
        rxDropped |-> st.rxDropped, lossRatio |-> LossRatio(st)]

\* g_flowStats after the second report loop has read g_flowStats[key] for
\* every key of the vector (operator[] inserts an absent key)
TouchKeys(stats, keys) ==
    [k \in (DOMAIN stats) \cup {keys[i] : i \in DOMAIN keys} |-> Entry(stats, k)]

----------------------------------------------------------------------------
(* Kinematics of the platform (UpdateHapState), in fixed point *)

\* fixed-point units per metre (centimetres)
PosScale == 100

\* g_circleRadius, metres
g_circleRadius == 6000

\* the moving-platform programs: the dynamic-gain scenario (one loop in
\* 100 s, stopped at 120 s) and its long-run variant (one loop in 30
\* minutes, stopped at 3600 s)
Variants == {"dynamic", "longrun"}

\* g_angularVelocity = 2 * M_PI / 100.0 rad/s, as the fraction
\* OmegaNum / OmegaDen (pi taken as 355/113)
OmegaNum == 71
OmegaDen == 1130

\* long-run variant: g_angularVelocity = 2 * M_PI / time_of_loop with
\* time_of_loop = 30 * 60, as the fraction OmegaNum / OmegaDenLong
OmegaDenLong == 20340

\* Seconds(0.1): ticks per second
TicksPerSecond == 10

\* Simulator::Stop(Seconds(120.0))
StopSeconds == 120

\* long-run variant: Simulator::Stop(Seconds(3600.0))
StopSecondsLong == 3600

\* the stop time of the running program, in ticks
StopTicks ==
    (IF variant = "longrun" THEN StopSecondsLong ELSE StopSeconds) * TicksPerSecond

\* defaults of the hight and groundDistance options (metres)
DefaultHight == 20000
DefaultGroundDistance == 5000

\* values of the hight option (metres) explored
HeightChoices == {DefaultHight, 18000}

\* values of the groundDistance option (metres) explored; with 0 the
\* platform starts on the look-at point
GroundDistanceChoices == {DefaultGroundDistance, 0}

\* double g_maxAntennaGain = 20.0, also the default of the antGain option
DefaultMaxGain == 20

\* values of the antGain option (dBi) explored
AntGainChoices == {DefaultMaxGain, 10}

\* division of a by b > 0, rounded to the nearest integer
RoundDiv(a, b) ==
    IF a >= 0 THEN (2 * a + b) \div (2 * b)
    ELSE -((2 * (-a) + b) \div (2 * b))

\* g_angularVelocity * c
TimesOmega(c) ==
    RoundDiv(OmegaNum * c, IF variant = "longrun" THEN OmegaDenLong ELSE OmegaDen)

\* a variant of the velocity directed along the radius
TangentVelocity_Radial(p) == <<TimesOmega(p[1]), TimesOmega(p[2]), 0>>

\* the velocity UpdateHapState sets for position p
TangentVelocity(p) == <<-TimesOmega(p[2]), TimesOmega(p[1]), 0>>

\* ConstantVelocityHelper::Update: position after dt ticks at velocity v
Advance(p, v, dt) ==
    [i \in 1..3 |-> p[i] + RoundDiv(v[i] * dt, TicksPerSecond)]

\* the event the simulator executes next: the earliest pending one, the
\* first scheduled among those of equal time (an index of the queue)
Earliest(q) ==
    CHOOSE i \in DOMAIN q :
        \A j \in DOMAIN q : q[i] < q[j] \/ (q[i] = q[j] /\ i <= j)

\* the queue without its i-th event
Remove(q, i) == SubSeq(q, 1, i - 1) \o SubSeq(q, i + 1, Len(q))

----------------------------------------------------------------------------
(* Arithmetic on doubles, in fixed point with eight decimals                *)

\* a real number is kept as the nearest integer multiple of 1 / Unit
Unit == 100000000

\* the square root of Unit: a product is taken by halves of this size
Root == 10000

\* M_PI and M_PI / 2, in units of 1 / Unit
Pi == 314159265
HalfPi == RoundDiv(Pi, 2)

\* ln 2, 1 / ln 10, sqrt(2) and 1 / sqrt(2), in units of 1 / Unit
Ln2 == 69314718
InvLn10 == 43429448
Sqrt2 == 141421356
InvSqrt2 == 70710678

\* the largest number whose square is representable
MaxRoot == 46340

Abs(a) == IF a < 0 THEN -a ELSE a

\* a * b / Unit rounded to the nearest integer, for 0 <= a, b <= MaxRoot * Root
MulAbs(a, b) ==
    LET a1 == a \div Root
        a0 == a % Root
        b1 == b \div Root
        b0 == b % Root
    IN a1 * b1 + (a1 * b0 + a0 * b1 + (a0 * b0 + Unit \div 2) \div Root) \div Root

\* the product of two numbers
MulUnit(a, b) ==
    IF (a < 0) = (b < 0) THEN MulAbs(Abs(a), Abs(b)) ELSE -MulAbs(Abs(a), Abs(b))

\* long division: n more decimal digits of the quotient q with remainder r
\* of a division by b, the last digit rounded
RECURSIVE LongDiv(_, _, _, _)
LongDiv(q, r, b, n) ==
    IF n = 0 THEN q + (IF 2 * r >= b THEN 1 ELSE 0)
    ELSE LongDiv(q * 10 + (r * 10) \div b, (r * 10) % b, b, n - 1)

\* a * Unit / b rounded to the nearest integer, for a >= 0 and
\* 0 < b <= 214748364
DivAbs(a, b) == LongDiv(a \div b, a % b, b, 8)

\* the quotient of two numbers
DivUnit(a, b) ==
    IF (a < 0) = (b < 0) THEN DivAbs(Abs(a), Abs(b)) ELSE -DivAbs(Abs(a), Abs(b))

\* the largest r in lo..hi with r * r <= n
RECURSIVE SqrtBetween(_, _, _)
SqrtBetween(n, lo, hi) ==
    IF lo = hi THEN lo
    ELSE LET mid == (lo + hi + 1) \div 2
         IN IF mid * mid <= n THEN SqrtBetween(n, mid, hi)
            ELSE SqrtBetween(n, lo, mid - 1)

\* n steps of Newton's iteration for the square root of x from the
\* estimate s
RECURSIVE SqrtNewton(_, _, _)
SqrtNewton(x, s, n) ==
    IF n = 0 THEN s
    ELSE SqrtNewton(x, RoundDiv(s + DivAbs(x, s), 2), n - 1)

\* std::sqrt of a number x with 0 <= x <= 4.4
Sqrt(x) ==
    IF x = 0 THEN 0
    ELSE SqrtNewton(x, SqrtBetween(x, 1, MaxRoot) * Root, 4)

\* 1 - x2/d1 (1 - x2/d2 (1 - ...)) for the divisors d_i, d_i+1, ... of ds
\* and 0 <= x2 <= 1
RECURSIVE Horner(_, _, _)
Horner(x2, ds, i) ==
    IF i > Len(ds) THEN Unit
    ELSE Unit - RoundDiv(MulAbs(x2, Horner(x2, ds, i + 1)), ds[i])

\* the Taylor polynomials of degree 10 and 11 of the cosine and the sine,
\* for |x| <= 0.85 (the terms left out are below 1 / Unit)
CosSeries(x) == Horner(MulUnit(x, x), <<2, 12, 30, 56, 90>>, 1)
SinSeries(x) == MulUnit(x, Horner(MulUnit(x, x), <<6, 20, 42, 72, 110>>, 1))

\* std::cos on [-2 M_PI, 2 M_PI]
Cos(x) ==
    LET a == IF Abs(x) > Pi THEN 2 * Pi - Abs(x) ELSE Abs(x)
    IN IF 4 * a <= Pi THEN CosSeries(a)
       ELSE IF 4 * a <= 3 * Pi THEN SinSeries(HalfPi - a)
       ELSE -CosSeries(Pi - a)

\* c + c^3 / 6 + 3 c^5 / 40 + 15 c^7 / 336, the start of the series of the
\* arc sine, for 0 <= c <= 0.75
ASinSeries(c) ==
    LET c2 == MulAbs(c, c)
    IN MulAbs(c, Unit + MulAbs(c2, 16666667 + MulAbs(c2, 7500000 + MulAbs(c2, 4464286))))

\* a step of Newton's iteration for the arc sine of c from the estimate y
ASinStep(c, y) == y + DivUnit(c - SinSeries(y), CosSeries(y))

\* std::asin on [0, 0.75]: two steps from the series make the eight decimals
ASin(c) == ASinStep(c, ASinStep(c, ASinSeries(c)))

\* std::acos on [-1, 1]; next to 1 and -1 by the half-angle formula
\* acos(c) = 2 asin(sqrt((1 - c) / 2))
ACos(c) ==
    IF c >= Unit THEN 0
    ELSE IF c <= -Unit THEN Pi
    ELSE IF 4 * Abs(c) <= 3 * Unit
         THEN HalfPi - (IF c >= 0 THEN ASin(c) ELSE -ASin(-c))
         ELSE LET h == 2 * ASin(MulUnit(Sqrt(Unit - Abs(c)), InvSqrt2))
              IN IF c > 0 THEN h ELSE Pi - h

\* std::atan on [0, 1]: atan(t) = asin(t / sqrt(1 + t * t))
ATan(t) == ASin(DivUnit(t, Sqrt(Unit + MulUnit(t, t))))

\* std::atan2(y, x) for two coordinates that are not both 0
ATan2(y, x) ==
    LET a == IF Abs(y) <= Abs(x) THEN ATan(DivAbs(Abs(y), Abs(x)))
             ELSE HalfPi - ATan(DivAbs(Abs(x), Abs(y)))
        b == IF x < 0 THEN Pi - a ELSE a
    IN IF y >= 0 THEN b ELSE -b

\* a positive double outside the range of the fixed point is kept as a
\* decimal <<m, e>>: the number m / Unit * 10^e, with Unit / 10 <= m < Unit
\* (or m = 0); Decimal gives this form to any m >= 0
RECURSIVE Decimal(_, _)
Decimal(m, e) ==
    IF m = 0 THEN <<0, 0>>
    ELSE IF m >= Unit THEN Decimal(RoundDiv(m, 10), e + 1)
    ELSE IF m < Unit \div 10 THEN Decimal(m * 10, e - 1)
    ELSE <<m, e>>

\* the product of two decimals
DecMul(a, b) == Decimal(MulUnit(a[1], b[1]), a[2] + b[2])

\* std::pow(c, e) for a decimal c and an integer e >= 1
RECURSIVE Pow(_, _)
Pow(c, e) == IF e = 1 THEN c ELSE DecMul(Pow(c, e - 1), c)

\* v / 2^j with v <= sqrt(2)
RECURSIVE Halve(_, _)
Halve(v, j) == IF v <= Sqrt2 THEN <<v, j>> ELSE Halve(RoundDiv(v, 2), j + 1)

\* 2 atanh(z) = ln((1 + z) / (1 - z)) by its power series, for |z| <= 0.172
Atanh2(z) ==
    LET z2 == MulUnit(z, z)
        s6 == Unit \div 13
        s5 == RoundDiv(Unit, 11) + MulUnit(z2, s6)
        s4 == RoundDiv(Unit, 9) + MulUnit(z2, s5)
        s3 == RoundDiv(Unit, 7) + MulUnit(z2, s4)
        s2 == RoundDiv(Unit, 5) + MulUnit(z2, s3)
        s1 == RoundDiv(Unit, 3) + MulUnit(z2, s2)
    IN 2 * MulUnit(z, Unit + MulUnit(z2, s1))

\* natural logarithm of 10 m / Unit for a mantissa m: the number is halved
\* into [sqrt(2) / 2, sqrt(2)] and the series taken at z = (v - 1) / (v + 1)
LnMantissa(m) ==
    LET h == Halve(m * 10, 0)
        v == h[1]
        z == RoundDiv(DivUnit(v - Unit, RoundDiv(v + Unit, 2)), 2)
    IN h[2] * Ln2 + Atanh2(z)

\* std::log10 of a decimal other than 0
Log10(d) == MulUnit(LnMantissa(d[1]), InvLn10) + (d[2] - 1) * Unit

----------------------------------------------------------------------------
(* Geometry and antenna gain (GetVector, CalculateAngle,                    *)
(* CalculateDirectionalGain)                                                *)

\* gains are in units of 1 / GainScale dB
GainScale == 100

\* Vector(0.0, 0.0, 0.0)
Origin == <<0, 0, 0>>

\* GetVector: the vector from one point to another
GetVector(from, to) == [i \in 1..3 |-> to[i] - from[i]]

\* the largest coordinate of a vector, in absolute value
MaxNorm(v) ==
    LET a == Abs(v[1])
        b == Abs(v[2])
        c == Abs(v[3])
    IN IF a >= b /\ a >= c THEN a ELSE IF b >= c THEN b ELSE c

\* a coordinate x divided by 1.25 times m, for 0 < |x| <= m or x = 0
Scaled(x, m) ==
    LET u == RoundDiv(DivAbs(Abs(x), m) * 4, 5)
    IN IF x < 0 THEN -u ELSE u

\* a vector other than the null vector divided by 1.25 times its largest
\* coordinate: the direction is the same and every product below is in the
\* range of the fixed point
Direction(v) ==
    LET m == MaxNorm(v)
    IN <<Scaled(v[1], m), Scaled(v[2], m), Scaled(v[3], m)>>

\* v1.x * v2.x + v1.y * v2.y + v1.z * v2.z
Dot(v1, v2) == MulUnit(v1[1], v2[1]) + MulUnit(v1[2], v2[2]) + MulUnit(v1[3], v2[3])

\* the cross product of two vectors
Cross(v1, v2) ==
    <<MulUnit(v1[2], v2[3]) - MulUnit(v1[3], v2[2]),
      MulUnit(v1[3], v2[1]) - MulUnit(v1[1], v2[3]),
      MulUnit(v1[1], v2[2]) - MulUnit(v1[2], v2[1])>>

\* std::sqrt(v.x * v.x + v.y * v.y + v.z * v.z), taken on the direction of
\* v so that the squares of a short vector keep their digits
Magnitude(v) ==
    IF v = Origin THEN 0
    ELSE LET d == Direction(v)
         IN MulUnit(RoundDiv(MaxNorm(v) * 5, 4), Sqrt(Dot(d, d)))

\* the part of CalculateAngle after its test of the magnitudes: the
\* cosine from the dot product, clamped to [-1, 1], and its arc cosine. The
\* product mag1 * mag2 is taken as the root of the product of the squares,
\* which leaves the cosine of two parallel vectors at 1. Where the cosine
\* is above 0.75 in absolute value, eight decimals of it do not give the
\* angle to eight decimals, and the arc cosine is taken from the sine
\* |v1 x v2| / (mag1 * mag2) of the same angle
AngleBetween(v1, v2) ==
    LET a == Direction(v1)
        b == Direction(v2)
        dotProduct == Dot(a, b)
        mag1mag2 == Sqrt(MulUnit(Dot(a, a), Dot(b, b)))
        c == DivUnit(dotProduct, mag1mag2)
        cosAngle == IF c > Unit THEN Unit ELSE IF c < -Unit THEN -Unit ELSE c
    IN IF 4 * Abs(cosAngle) <= 3 * Unit THEN ACos(cosAngle)
       ELSE LET h == ASin(DivUnit(Magnitude(Cross(a, b)), mag1mag2))
            IN IF cosAngle > 0 THEN h ELSE Pi - h

\* a variant of CalculateAngle that takes a null vector to be at a right
\* angle to every vector
CalculateAngle_NullIsRightAngle(v1, v2) ==
    IF v1 = Origin \/ v2 = Origin THEN HalfPi
    ELSE AngleBetween(v1, v2)

\* CalculateAngle: the angle between two vectors, 0 when either is null
\* (mag1 * mag2 == 0)
CalculateAngle(v1, v2) ==
    IF v1 = Origin \/ v2 = Origin THEN 0
    ELSE AngleBetween(v1, v2)

\* g_beamwidthExponent
g_beamwidthExponent == 2

\* what std::log10 returns for 0 (minus infinity)
MinusInfinity == -1000000000

\* 10.0 * std::log10(p) for a decimal p, in units of 1 / GainScale dB
TenLog10(p) ==
    IF p[1] = 0 THEN MinusInfinity
    ELSE RoundDiv(Log10(p), Unit \div (10 * GainScale))

\* the cosine below which the gain is the floor: 0.01
CosThreshold == 1000000

\* the floor of the gain: -20.0 dB
MinGain == -2000

\* a variant of DirectionalGain without the floor: the logarithm is
\* evaluated for every cosine
DirectionalGain_NoFloor(angleRad) ==
    LET c == Cos(angleRad)
        cosAngle == IF c < 0 THEN 0 ELSE c
    IN [gain |-> g_maxAntennaGain
                   + TenLog10(Pow(Decimal(cosAngle, 0), g_beamwidthExponent)),
        logEvaluated |-> TRUE]

\* a variant of DirectionalGain that returns the gain relative to the
\* maximum gain
DirectionalGain_Relative(angleRad) ==
    LET c == Cos(angleRad)
        cosAngle == IF c < 0 THEN 0 ELSE c
    IN IF cosAngle < CosThreshold
       THEN [gain |-> MinGain, logEvaluated |-> FALSE]
       ELSE [gain |-> TenLog10(Pow(Decimal(cosAngle, 0), g_beamwidthExponent)),
             logEvaluated |-> TRUE]

\* CalculateDirectionalGain with its use of std::log10: the gain returned
\* and whether the logarithm was evaluated
DirectionalGain(angleRad) ==
    LET c == Cos(angleRad)
        cosAngle == IF c < 0 THEN 0 ELSE c
    IN IF cosAngle < CosThreshold
       THEN [gain |-> MinGain, logEvaluated |-> FALSE]
       ELSE [gain |-> g_maxAntennaGain
                        + TenLog10(Pow(Decimal(cosAngle, 0), g_beamwidthExponent)),
             logEvaluated |-> TRUE]

\* CalculateDirectionalGain: the gain at an offset of angleRad from the beam
CalculateDirectionalGain(angleRad) == DirectionalGain(angleRad).gain

\* the direction the platform looks in: towards (0, 0, 0)
ViewVector(pos) == GetVector(pos, Origin)

\* the gain UpdateHapState computes for the link to a target, with the
\* platform at pos
GainToward(pos, target) ==
    CalculateDirectionalGain(CalculateAngle(ViewVector(pos), GetVector(pos, target)))

\* a variant of gainB computed from the direction of ground station A
HapGainB_TowardA(pos) == GainToward(pos, posNodeA)

\* gainA and gainB of UpdateHapState
HapGainA(pos) == GainToward(pos, posNodeA)
HapGainB(pos) == GainToward(pos, posNodeB)

\* SetAttribute("TxGain", gain) and SetAttribute("RxGain", gain)
SetGains(gain) == [TxGain |-> gain, RxGain |-> gain]

----------------------------------------------------------------------------
(* Initial state: main has created the devices; nothing is registered or    *)
(* traced; no moving-platform program has run its main yet, so the globals  *)
(* have their initialisers and no UpdateHapState is scheduled               *)

EmptyMap == [x \in {} |-> 0]

\* no call of CalculateDirectionalGain recorded
NoCall == [fn |-> "none"]

\* the losses of the Ka-band scenario not computed yet
NoBudget == [computed |-> FALSE]

\* no program has scheduled its traffic source yet
NoTraffic == [started |-> FALSE]

Init ==
    /\ pc = "setup"
    /\ g_macToNodeId = EmptyMap
    /\ g_flowStats = EmptyMap
    /\ traced = {}
    /\ flowKeys = <<>>
    /\ report = <<>>
    /\ air = <<>>
    /\ linkSent = 0
    /\ hapPos = Origin
    /\ hapVel = <<0, 0, 0>>
    /\ simNow = 0
    /\ tickQueue = <<>>
    /\ simStopped = FALSE
    /\ variant = "unset"
    /\ g_maxAntennaGain = DefaultMaxGain * GainScale
    /\ posNodeA = Origin
    /\ posNodeB = Origin
    /\ phyHapA = SetGains(0)
    /\ phyHapB = SetGains(0)
    /\ tickCount = 0
    /\ handles = {}
    /\ hapOrientation = [A |-> 0, B |-> 0]
    /\ call = NoCall
    /\ budget = NoBudget
    /\ traffic = NoTraffic

----------------------------------------------------------------------------
(* Actions of the accountant *)

PopulateMacTable ==
    /\ pc = "setup"
    /\ g_macToNodeId' = PopulateFrom(g_macToNodeId, 1)
    /\ pc' = "populated"
    /\ UNCHANGED <<g_flowStats, traced, flowKeys, report>>
    /\ UNCHANGED <<linkVars, hapVars, fnVars>>

SetupDeviceTraces ==
    /\ pc = "populated"
    /\ traced' = {i \in DeviceIds : Devices[i].wifi}
    /\ pc' = "run"
    /\ UNCHANGED <<g_macToNodeId, g_flowStats, flowKeys, report>>
    /\ UNCHANGED <<linkVars, hapVars, fnVars>>

\* the PhyTxBegin trace source of device dev fires for packet p
PhyTxBegin(dev, p) ==
    /\ pc = "run"
    /\ dev \in traced
    /\ Total(g_flowStats) < MaxEvents
    /\ g_flowStats' = PhyTxBeginCallback(g_flowStats, g_macToNodeId, dev, p)
    /\ UNCHANGED <<pc, g_macToNodeId, traced, flowKeys, report>>
    /\ UNCHANGED <<linkVars, hapVars, fnVars>>

\* the PhyRxEnd trace source of device dev fires for packet p
PhyRxEnd(dev, p) ==
    /\ pc = "run"
    /\ dev \in traced
    /\ Total(g_flowStats) < MaxEvents
    /\ g_flowStats' = PhyRxEndCallback(g_flowStats, g_macToNodeId, dev, p)
    /\ UNCHANGED <<pc, g_macToNodeId, traced, flowKeys, report>>
    /\ UNCHANGED <<linkVars, hapVars, fnVars>>

\* the PhyRxDrop trace source of device dev fires for packet p
PhyRxDrop(dev, p) ==
    /\ pc = "run"
    /\ dev \in traced
    /\ Total(g_flowStats) < MaxEvents
    /\ g_flowStats' = PhyRxDropCallback(g_flowStats, g_macToNodeId, dev, p)
    /\ UNCHANGED <<pc, g_macToNodeId, traced, flowKeys, report>>
    /\ UNCHANGED <<linkVars, hapVars, fnVars>>

\* section 12 of main, after Simulator::Run has returned
LinkReport ==
    /\ pc = "run"
    /\ LET keys == SortKeys(CollectKeys(g_flowStats))
       IN /\ flowKeys' = keys
          /\ report' = [i \in DOMAIN keys |-> ReportRow(g_flowStats, keys[i])]
          /\ g_flowStats' = TouchKeys(g_flowStats, keys)
    /\ pc' = "reported"
    /\ UNCHANGED <<g_macToNodeId, traced>>
    /\ UNCHANGED <<linkVars, hapVars, fnVars>>

Next ==
    \/ PopulateMacTable
    \/ SetupDeviceTraces
    \/ \E dev \in ExploredDevices : \E p \in SentBy(dev) : PhyTxBegin(dev, p)
    \/ \E dev \in ExploredDevices : \E p \in HeardBy(dev) : PhyRxEnd(dev, p)
    \/ \E dev \in ExploredDevices : \E p \in HeardBy(dev) : PhyRxDrop(dev, p)
    \/ LinkReport

Spec == Init /\ [][Next]_vars

----------------------------------------------------------------------------
(* A single point-to-point link: UT_1_1 (device 2) is the only sender and   *)
(* the Wi-Fi interface of HAP_1 (device 1) the only receiver; every receive *)
(* event belongs to a frame the sender put on the air, and a frame has at   *)
(* most one outcome at the receiver                                         *)

LinkSender == 2
LinkReceiver == 1

\* the frames the sender builds: unicast data to the receiver, or a
\* broadcast frame (an ARP request)
LinkFrames ==
    { [parses |-> TRUE, addr1 |-> d, addr2 |-> Devices[LinkSender].mac] :
         d \in {Devices[LinkReceiver].mac, BroadcastMac} }

LinkTransmit(p) ==
    /\ pc = "run"
    /\ LinkSender \in traced
    /\ linkSent < MaxLinkFrames
    /\ Len(air) < MaxInFlight
    /\ g_flowStats' = PhyTxBeginCallback(g_flowStats, g_macToNodeId, LinkSender, p)
    /\ air' = Append(air, p)
    /\ linkSent' = linkSent + 1
    /\ UNCHANGED <<pc, g_macToNodeId, traced, flowKeys, report, hapVars, fnVars>>

LinkReceive ==
    /\ pc = "run"
    /\ LinkReceiver \in traced
    /\ air # <<>>
    /\ g_flowStats' = PhyRxEndCallback(g_flowStats, g_macToNodeId, LinkReceiver, Head(air))
    /\ air' = Tail(air)
    /\ UNCHANGED <<pc, g_macToNodeId, traced, flowKeys, report, linkSent, hapVars, fnVars>>

LinkDrop ==
    /\ pc = "run"
    /\ LinkReceiver \in traced
    /\ air # <<>>
    /\ g_flowStats' = PhyRxDropCallback(g_flowStats, g_macToNodeId, LinkReceiver, Head(air))
    /\ air' = Tail(air)
    /\ UNCHANGED <<pc, g_macToNodeId, traced, flowKeys, report, linkSent, hapVars, fnVars>>

\* the frame never reaches the receiver's Phy: no trace source fires
LinkMiss ==
    /\ pc = "run"
    /\ air # <<>>
    /\ air' = Tail(air)
    /\ UNCHANGED <<pc, g_macToNodeId, g_flowStats, traced, flowKeys, report, linkSent, hapVars, fnVars>>

NextLink ==
    \/ PopulateMacTable
    \/ SetupDeviceTraces
    \/ \E p \in LinkFrames : LinkTransmit(p)
    \/ LinkReceive
    \/ LinkDrop
    \/ LinkMiss
    \/ LinkReport

SpecLink == Init /\ [][NextLink]_vars

----------------------------------------------------------------------------
(* The periodic task of the moving-platform scenarios *)

\* a variant of the rescheduling with a period of 0.2 s
NextTickTime_Double(t) == t + 2

\* Simulator::Schedule(Seconds(0.1), ...) at time t: the time of the event
NextTickTime(t) == t + 1

\* a variant of the stop in which an event at the stop time itself is
\* still executed
StopReached_After(t) == t > StopTicks

\* the stop event of Simulator::Stop is scheduled before any tick, so at
\* the stop time it runs first: an event at time t is not executed when
\* the stop time has been reached
StopReached(t) == t >= StopTicks

\* the third position of the allocator: Vector(groundDistance/2, 0.0, 0.0)
HapStart(groundDistance) == <<(groundDistance * PosScale) \div 2, 0, 0>>

\* the scenario of wifi-moving-hap-router.cc, whose task turns the two
\* antennas of the platform instead of setting the gains of its PHYs
RouterVariant == "router"

\* the global handles of a program: those main assigns from a lookup
\* (GetObject, DynamicCast), which yields null when the object is not of
\* the requested type, and those it assigns from CreateObject
LookedUpHandles(v) ==
    IF v = RouterVariant THEN {"g_hapMobility"}
    ELSE {"g_hapMobility", "g_phyHapA", "g_phyHapB"}

CreatedHandles(v) ==
    IF v = RouterVariant THEN {"g_hapAntennaA", "g_hapAntennaB"} ELSE {}

AllHandles(v) == LookedUpHandles(v) \cup CreatedHandles(v)

\* a variant of the test at the head of UpdateHapState that looks at
\* g_hapMobility only
RequiredHandles_MobilityOnly(v) == {"g_hapMobility"}

\* the handles tested at the head of UpdateHapState
RequiredHandles(v) ==
    IF v = RouterVariant THEN {"g_hapMobility"}
    ELSE {"g_hapMobility", "g_phyHapA", "g_phyHapB"}

\* 180 / M_PI / 100, in units of 1 / Unit
DegreesPerRadian == 57295780

\* angleRad * 180.0 / M_PI: degrees, in hundredths
Degrees(a) == RoundDiv(MulUnit(a, DegreesPerRadian), Root)

\* std::atan2(-y, -x) for coordinates x and y of a position; a coordinate
\* 0 is +0.0, so that its negation is -0.0
Atan2Negated(x, y) ==
    IF y = 0 THEN (IF x >= 0 THEN -Pi ELSE 0)
    ELSE ATan2(-y, -x)

\* angleDeg of the router scenario: the azimuth from the platform to the
\* centre of the circle
AngleDeg(pos) == Degrees(Atan2Negated(pos[1], pos[2]))

\* the Orientation main of the router scenario gives to both antennas
InitialOrientation == 180

\* a variant of the rescheduling in which the task schedules itself twice
Reschedule_Twice(t) == <<NextTickTime(t), NextTickTime(t)>>

\* the events UpdateHapState schedules when it runs to its end at time t
Reschedule(t) == <<NextTickTime(t)>>

\* main of a moving-platform program, up to Simulator::Run: the options
\* hight, groundDistance and antGain are read, g_maxAntennaGain is set, the
\* three positions of the allocator are handed out in the order of the
\* Install calls (ground A, ground B, then the platform), the global
\* handles are assigned (obtained: those that are not null), and the first
\* UpdateHapState is scheduled 0.1 s after the start
HapMain(v, hight, groundDistance, antGain, obtained) ==
    /\ variant = "unset"
    /\ variant' = v
    /\ g_maxAntennaGain' = IF v = RouterVariant THEN g_maxAntennaGain
                           ELSE antGain * GainScale
    /\ posNodeA' = <<g_circleRadius * PosScale, 0, hight * PosScale>>
    /\ posNodeB' = IF v = "longrun" THEN Origin
                   ELSE <<-((groundDistance * PosScale) \div 2), 0, 0>>
    /\ hapPos' = HapStart(groundDistance)
    /\ hapVel' = <<0, 0, 0>>
    /\ handles' = obtained
    /\ hapOrientation' = IF v = RouterVariant
                         THEN [A |-> InitialOrientation * GainScale,
                               B |-> InitialOrientation * GainScale]
                         ELSE hapOrientation
    /\ tickQueue' = <<NextTickTime(0)>>
    /\ UNCHANGED <<simNow, simStopped, phyHapA, phyHapB, tickCount>>
    /\ UNCHANGED <<plaVars, linkVars, fnVars>>

\* one invocation of UpdateHapState, at the time t of the next event of the
\* queue. When a required handle is null it returns at once. Otherwise the
\* mobility model brings the position up to t and the velocity is replaced
\* by the tangent at that position; the dynamic-gain programs replace both
\* gains of each PHY by the gain towards its ground station, the router
\* program turns the antennas it holds towards the centre; and the task
\* schedules itself 0.1 s later
UpdateHapState ==
    /\ ~simStopped
    /\ tickQueue # <<>>
    /\ LET i == Earliest(tickQueue)
           t == tickQueue[i]
           hapPosNow == Advance(hapPos, hapVel, t - simNow)
       IN /\ ~StopReached(t)
          /\ simNow' = t
          /\ hapPos' = hapPosNow
          /\ IF RequiredHandles(variant) \subseteq handles
             THEN /\ hapVel' = TangentVelocity(hapPosNow)
                  /\ IF variant = RouterVariant
                     THEN /\ hapOrientation' =
                                [A |-> IF "g_hapAntennaA" \in handles
                                       THEN AngleDeg(hapPosNow) ELSE hapOrientation.A,
                                 B |-> IF "g_hapAntennaB" \in handles
                                       THEN AngleDeg(hapPosNow) ELSE hapOrientation.B]
                          /\ UNCHANGED <<phyHapA, phyHapB>>
                     ELSE /\ phyHapA' = SetGains(HapGainA(hapPosNow))
                          /\ phyHapB' = SetGains(HapGainB(hapPosNow))
                          /\ UNCHANGED hapOrientation
                  /\ tickQueue' = Remove(tickQueue, i) \o Reschedule(t)
             ELSE /\ tickQueue' = Remove(tickQueue, i)
                  /\ UNCHANGED <<hapVel, phyHapA, phyHapB, hapOrientation>>
    /\ tickCount' = tickCount + 1
    /\ UNCHANGED <<simStopped, variant, g_maxAntennaGain, posNodeA, posNodeB, handles>>
    /\ UNCHANGED <<plaVars, linkVars, fnVars>>

\* the stop event of Simulator::Stop: no later event is executed, and the
\* events still pending are left in the queue
SimulatorStop ==
    /\ variant # "unset"
    /\ ~simStopped
    /\ \A i \in DOMAIN tickQueue : StopReached(tickQueue[i])
    /\ simStopped' = TRUE
    /\ simNow' = StopTicks
    /\ UNCHANGED <<hapPos, hapVel, tickQueue, variant, g_maxAntennaGain,
                   posNodeA, posNodeB, phyHapA, phyHapB, tickCount,
                   handles, hapOrientation>>
    /\ UNCHANGED <<plaVars, linkVars, fnVars>>

\* the runs of the dynamic-gain scenario explored: program and options
HapRuns ==
    {<<"dynamic", h, d, g>> : h \in HeightChoices, d \in GroundDistanceChoices,
                              g \in AntGainChoices}

\* the runs explored up to the stop time of the long-run variant: both
\* programs with their default options
LongRuns ==
    {<<v, DefaultHight, DefaultGroundDistance, DefaultMaxGain>> : v \in Variants}

NextHap ==
    \/ \E r \in HapRuns : HapMain(r[1], r[2], r[3], r[4], AllHandles(r[1]))
    \/ UpdateHapState
    \/ SimulatorStop

SpecHap == Init /\ [][NextHap]_vars

NextHapLong ==
    \/ \E r \in LongRuns : HapMain(r[1], r[2], r[3], r[4], AllHandles(r[1]))
    \/ UpdateHapState
    \/ SimulatorStop

SpecHapLong == Init /\ [][NextHapLong]_vars

\* the runs explored with handles that may be null: every program with its
\* default options and every outcome of the lookups of its main (the long
\* run with every handle set is the one of LongRuns)
HandleRuns ==
    {<<v, AllHandles(v) \ missing>> :
        v \in Variants \cup {RouterVariant},
        missing \in SUBSET {"g_hapMobility", "g_phyHapA", "g_phyHapB"}}
    \ {<<"longrun", AllHandles("longrun")>>}

NextHandles ==
    \/ \E r \in HandleRuns :
          HapMain(r[1], DefaultHight, DefaultGroundDistance, DefaultMaxGain, r[2])
    \/ UpdateHapState
    \/ SimulatorStop

SpecHandles == Init /\ [][NextHandles]_vars

----------------------------------------------------------------------------
(* CalculateDirectionalGain as a function of the angle *)

\* a milliradian
MilliRad == Unit \div 1000

\* the angular offsets explored: 0 to M_PI in steps of a milliradian, M_PI / 2
\* and M_PI
Angles == {k * MilliRad : k \in 0..(Pi \div MilliRad)} \cup {HalfPi, Pi}

\* one call of CalculateDirectionalGain after main has set g_maxAntennaGain
CallCalculateDirectionalGain(angleRad) ==
    /\ variant # "unset"
    /\ call = NoCall
    /\ call' = [fn |-> "gain",
                angle |-> angleRad,
                gain |-> CalculateDirectionalGain(angleRad),
                logEvaluated |-> DirectionalGain(angleRad).logEvaluated]
    /\ UNCHANGED <<plaVars, linkVars, hapVars, budget, traffic>>

NextAntenna ==
    \/ \E r \in HapRuns : HapMain(r[1], r[2], r[3], r[4], AllHandles(r[1]))
    \/ \E a \in Angles : CallCalculateDirectionalGain(a)

SpecAntenna == Init /\ [][NextAntenna]_vars

----------------------------------------------------------------------------
(* The end-to-end reports over the FlowMonitor statistics *)

\* the programs whose report is modelled
ReportPrograms == {"hap-sat-hap-simple", "wifi-simple-hap"}

\* packetSize of the two programs, bytes, and the bytes the UDP and IPv4
\* headers add to a packet FlowMonitor counts
PacketSizeSimple == 1000
PacketSizeKa == 1500
HeaderBytes == 28
PacketBytes(program) ==
    (IF program = "wifi-simple-hap" THEN PacketSizeSimple ELSE PacketSizeKa)
        + HeaderBytes

\* times are in milliseconds: a flow sends its first packet when
\* GenerateTraffic first runs, and its last packet arrives a positive time
\* after that
MsPerSecond == 1000

\* Seconds(1.0) of the first GenerateTraffic event, ms
FirstSendTime == 1000

FirstTxTimes == {FirstSendTime}
RxDelays == {5, 1000}

\* the FlowMonitor::FlowStats rows handed to the report of a program: a
\* row exists from the first transmission of its flow on; a row without
\* receptions keeps timeLastRxPacket at zero
FlowStatsRows(program) ==
    {[txPackets |-> tx, rxPackets |-> 0, rxBytes |-> 0,
      timeFirstTxPacket |-> t, timeLastRxPacket |-> 0] :
        tx \in 1..MaxFlowPackets, t \in FirstTxTimes}
    \cup
    UNION {{[txPackets |-> tx, rxPackets |-> rx, rxBytes |-> rx * PacketBytes(program),
             timeFirstTxPacket |-> t, timeLastRxPacket |-> t + d] :
                rx \in 1..tx, d \in RxDelays} :
           tx \in 1..MaxFlowPackets, t \in FirstTxTimes}

\* a printed double: a finite value as the fraction num / den, or what the
\* division of doubles yields for a zero denominator, or the placeholder
\* printed instead of a metric
Finite(n, d) == [kind |-> "finite", num |-> n, den |-> d]
NotANumber == [kind |-> "nan"]
Infinite == [kind |-> "inf"]
Placeholder == [kind |-> "placeholder"]

\* operator/ of double
Divide(n, d) ==
    IF d # 0 THEN Finite(n, d)
    ELSE IF n = 0 THEN NotANumber ELSE Infinite

\* timeLastRxPacket.GetSeconds() - timeFirstTxPacket.GetSeconds(), in ms
Elapsed(fs) == fs.timeLastRxPacket - fs.timeFirstTxPacket

\* the row of the end-to-end table of hap-sat-hap-simple.cc
KaFlowReport(fs) ==
    [lossRatio |-> IF fs.txPackets > 0
                   THEN Divide((fs.txPackets - fs.rxPackets) * 100, fs.txPackets)
                   ELSE Finite(0, 1),
     throughput |-> IF fs.rxPackets > 0
                    THEN Divide(fs.rxBytes * 8 * MsPerSecond, Elapsed(fs))
                    ELSE Placeholder]

\* the lines printed for one flow by wifi-simple-hap.cc
SimpleFlowReport(fs) ==
    [lossRatio |-> Divide((fs.txPackets - fs.rxPackets) * 100, fs.txPackets),
     throughput |-> Divide(fs.rxBytes * 8 * MsPerSecond, Elapsed(fs))]

\* one iteration of the report loop of a program over a FlowStats row
FlowReport(program, fs) ==
    /\ call = NoCall
    /\ call' = [fn |-> "report",
                program |-> program,
                stats |-> fs,
                row |-> IF program = "wifi-simple-hap"
                        THEN SimpleFlowReport(fs)
                        ELSE KaFlowReport(fs)]
    /\ UNCHANGED <<plaVars, linkVars, hapVars, budget, traffic>>

NextReport ==
    \E program \in ReportPrograms : \E fs \in FlowStatsRows(program) :
        FlowReport(program, fs)

SpecReport == Init /\ [][NextReport]_vars

----------------------------------------------------------------------------
(* The traffic source (GenerateTraffic) and the events of the simulator *)

\* the programs whose traffic source is modelled: hap-sat-hap-simple.cc
\* (Ka-band scenario), wifi-simple-hap.cc and the long-run scenario
TrafficPrograms == {"hap-sat-hap-simple", "wifi-simple-hap", "longrun"}

\* the 5.0 s added to the stop time of the Ka-band scenario, ms
StopMargin == 5000

\* Simulator::Stop(Seconds(44.0)) of wifi-simple-hap.cc, ms
StopSimple == 44000

\* defaults of the long-run scenario: numPackets{3600}, interval "1s"
NumPacketsLong == 3600
IntervalLong == 1000

\* values of the interval option explored, ms: the defaults of the three
\* programs (40 ms, 265 ms, 1 s) and 10 s
Intervals == {40, 265, IntervalLong, 10000}

\* the delay given to Simulator::Stop by main
StopTime(program, numPackets, interval) ==
    CASE program = "hap-sat-hap-simple" ->
             FirstSendTime + numPackets * interval + StopMargin
      [] program = "wifi-simple-hap" -> StopSimple
      [] program = "longrun" -> StopSecondsLong * MsPerSecond

\* the event the simulator executes next: the earliest, and among events of
\* equal time the one scheduled first (an index of the event list, which
\* is kept in scheduling order)
NextEvent(q) ==
    CHOOSE i \in DOMAIN q :
        \A j \in DOMAIN q :
            q[i].time < q[j].time \/ (q[i].time = q[j].time /\ i <= j)

\* a variant of the rescheduling of GenerateTraffic that passes pktCount on
\* unchanged
TrafficSuccessor_SameCount(ev, pktInterval) ==
    [kind |-> "GenerateTraffic", time |-> ev.time + pktInterval,
     pktCount |-> ev.pktCount]

\* Simulator::Schedule(pktInterval, &GenerateTraffic, socket, pktSize,
\* pktCount - 1, pktInterval) executed within event ev
TrafficSuccessor(ev, pktInterval) ==
    [kind |-> "GenerateTraffic", time |-> ev.time + pktInterval,
     pktCount |-> ev.pktCount - 1]

\* main: the first GenerateTraffic is scheduled at 1 s with the full packet
\* count, then Simulator::Stop schedules the stop event, then Run starts
TrafficMain(program, numPackets, pktInterval) ==
    /\ traffic = NoTraffic
    /\ traffic' =
          [started |-> TRUE,
           program |-> program,
           numPackets |-> numPackets,
           pktInterval |-> pktInterval,
           now |-> 0,
           stopped |-> FALSE,
           events |-> << [kind |-> "GenerateTraffic", time |-> FirstSendTime,
                          pktCount |-> numPackets],
                         [kind |-> "Stop",
                          time |-> StopTime(program, numPackets, pktInterval),
                          pktCount |-> 0] >>,
           sent |-> 0,
           lastSend |-> 0,
           closes |-> 0,
           closedAt |-> 0]
    /\ UNCHANGED <<plaVars, linkVars, hapVars, call, budget>>

\* the simulator executes a GenerateTraffic event: a packet is sent and the
\* function schedules itself with one packet less, or the socket is closed
GenerateTraffic ==
    /\ traffic.started
    /\ ~traffic.stopped
    /\ traffic.events # <<>>
    /\ LET i == NextEvent(traffic.events)
           ev == traffic.events[i]
           rest == Remove(traffic.events, i)
       IN /\ ev.kind = "GenerateTraffic"
          /\ traffic' =
                IF ev.pktCount > 0
                THEN [traffic EXCEPT
                         !.now = ev.time,
                         !.sent = @ + 1,
                         !.lastSend = ev.time,
                         !.events = Append(rest, TrafficSuccessor(ev, traffic.pktInterval))]
                ELSE [traffic EXCEPT
                         !.now = ev.time,
                         !.closes = @ + 1,
                         !.closedAt = ev.time,
                         !.events = rest]
    /\ UNCHANGED <<plaVars, linkVars, hapVars, call, budget>>

\* the simulator executes the stop event: Run returns and the events still
\* pending are never executed
TrafficStop ==
    /\ traffic.started
    /\ ~traffic.stopped
    /\ traffic.events # <<>>
    /\ LET i == NextEvent(traffic.events)
           ev == traffic.events[i]
       IN /\ ev.kind = "Stop"
          /\ traffic' = [traffic EXCEPT !.now = ev.time,
                                        !.stopped = TRUE,
                                        !.events = Remove(traffic.events, i)]
    /\ UNCHANGED <<plaVars, linkVars, hapVars, call, budget>>

NextTraffic ==
    \/ \E program \in TrafficPrograms, n \in 0..MaxPackets, d \in Intervals :
          TrafficMain(program, n, d)
    \/ GenerateTraffic
    \/ TrafficStop

SpecTraffic == Init /\ [][NextTraffic]_vars

\* the long-run scenario with its default options
NextTrafficLong ==
    \/ TrafficMain("longrun", NumPacketsLong, IntervalLong)
    \/ GenerateTraffic
    \/ TrafficStop

SpecTrafficLong == Init /\ [][NextTrafficLong]_vars

----------------------------------------------------------------------------
(* Binary floating point: the type double of the link budgets               *)

\* a natural number is kept as the sequence of its digits to the base
\* 2^LimbBits, the lowest first and the highest not 0 (0 is the empty
\* sequence): a product of two digits is in the range of the integers
LimbBits == 15

\* 2^n
RECURSIVE TwoTo(_)
TwoTo(n) == IF n = 0 THEN 1 ELSE 2 * TwoTo(n - 1)

Base == TwoTo(LimbBits)

\* the digits of an integer n >= 0
RECURSIVE Limbs(_)
Limbs(n) == IF n = 0 THEN <<>> ELSE <<n % Base>> \o Limbs(n \div Base)

\* the integer a sequence of digits stands for, when below 2^31
RECURSIVE LimbsValue(_)
LimbsValue(a) == IF a = <<>> THEN 0 ELSE a[1] + Base * LimbsValue(Tail(a))

\* a sequence of digits without its leading zeros
RECURSIVE Trim(_)
Trim(a) ==
    IF a = <<>> \/ a[Len(a)] # 0 THEN a
    ELSE Trim(SubSeq(a, 1, Len(a) - 1))

\* the digit of weight Base^(i-1)
Limb(a, i) == IF i <= Len(a) THEN a[i] ELSE 0

\* a * Base^n
ShiftLimbs(a, n) == IF a = <<>> THEN a ELSE [i \in 1..n |-> 0] \o a

\* a + b + carry, from the digit i on
RECURSIVE BigAddFrom(_, _, _, _)
BigAddFrom(a, b, i, carry) ==
    IF i > Len(a) /\ i > Len(b) THEN (IF carry = 0 THEN <<>> ELSE <<carry>>)
    ELSE LET s == Limb(a, i) + Limb(b, i) + carry
         IN <<s % Base>> \o BigAddFrom(a, b, i + 1, s \div Base)

BigAdd(a, b) == BigAddFrom(a, b, 1, 0)

\* a - b - borrow for a >= b, from the digit i on
RECURSIVE BigSubFrom(_, _, _, _)
BigSubFrom(a, b, i, borrow) ==
    IF i > Len(a) THEN <<>>
    ELSE LET s == Limb(a, i) - Limb(b, i) - borrow
         IN <<s % Base>> \o BigSubFrom(a, b, i + 1, IF s < 0 THEN 1 ELSE 0)

BigSub(a, b) == Trim(BigSubFrom(a, b, 1, 0))

\* a < b, decided by the digits from i down, for two numbers of one length
RECURSIVE BigLessFrom(_, _, _)
BigLessFrom(a, b, i) ==
    IF i = 0 THEN FALSE
    ELSE IF a[i] # b[i] THEN a[i] < b[i]
    ELSE BigLessFrom(a, b, i - 1)

BigLess(a, b) ==
    IF Len(a) # Len(b) THEN Len(a) < Len(b) ELSE BigLessFrom(a, b, Len(a))

\* a * m + carry for a digit m, from the digit i of a on
RECURSIVE MulSmallFrom(_, _, _, _)
MulSmallFrom(a, m, i, carry) ==
    IF i > Len(a) THEN (IF carry = 0 THEN <<>> ELSE <<carry>>)
    ELSE LET p == a[i] * m + carry
         IN <<p % Base>> \o MulSmallFrom(a, m, i + 1, p \div Base)

MulSmall(a, m) == IF m = 0 THEN <<>> ELSE MulSmallFrom(a, m, 1, 0)

\* a * b, from the digit i of a on
RECURSIVE BigMulFrom(_, _, _)
BigMulFrom(a, b, i) ==
    IF i > Len(a) THEN <<>>
    ELSE BigAdd(MulSmall(b, a[i]), ShiftLimbs(BigMulFrom(a, b, i + 1), 1))

BigMul(a, b) == BigMulFrom(a, b, 1)

\* division of a by an integer d with 0 < d < 2 * Base: the digits of a
\* from i down are still to be brought down, r is the remainder and q the
\* quotient so far
RECURSIVE DivSmallFrom(_, _, _, _, _)
DivSmallFrom(a, d, i, r, q) ==
    IF i = 0 THEN [quotient |-> Trim(q), remainder |-> r]
    ELSE LET cur == r * Base + a[i]
         IN DivSmallFrom(a, d, i - 1, cur % d, <<cur \div d>> \o q)

DivSmall(a, d) == DivSmallFrom(a, d, Len(a), 0, <<>>)

\* the number of binary digits of an integer n >= 0
RECURSIVE IntBitLen(_)
IntBitLen(n) == IF n = 0 THEN 0 ELSE 1 + IntBitLen(n \div 2)

\* the number of binary digits of a
BitLen(a) ==
    IF a = <<>> THEN 0 ELSE LimbBits * (Len(a) - 1) + IntBitLen(a[Len(a)])

\* a * 2^k
ShiftLeft(a, k) == ShiftLimbs(MulSmall(a, TwoTo(k % LimbBits)), k \div LimbBits)

\* a divided by 2^k: the quotient, and whether the division is exact
ShiftRight(a, k) ==
    LET Shifted(n, d) ==
            [quotient |-> d.quotient,
             exact |-> d.remainder = 0 /\ \A i \in 1..n : Limb(a, i) = 0]
    IN Shifted(k \div LimbBits,
               DivSmall(SubSeq(a, k \div LimbBits + 1, Len(a)), TwoTo(k % LimbBits)))

\* DBL_MANT_DIG: the binary digits of the significand of a double
DBL_MANT_DIG == 53

\* a logarithm is computed in fixed point with FixLimbs digits (FixBits
\* binary digits) after the point
FixLimbs == 5
FixBits == FixLimbs * LimbBits

\* a double is its sign, its significand (a number of DBL_MANT_DIG binary
\* digits, or 0) and its exponent: the number sig * 2^exp, negated when
\* neg. The exponent is not bounded: no value of the budgets is near the
\* limits of the range
Zero == [neg |-> FALSE, sig |-> <<>>, exp |-> 0]

\* the double nearest to mag * 2^exp, or to a number just above it when
\* inexact; a tie goes to the even significand
Round(neg, mag, exp, inexact) ==
    LET Carried(r, e) ==
            IF BitLen(r) > DBL_MANT_DIG
            THEN [neg |-> neg, sig |-> DivSmall(r, 2).quotient, exp |-> e + 1]
            ELSE [neg |-> neg, sig |-> r, exp |-> e]
        Nearest(upper, kept, more, e) ==
            Carried(IF upper[1] % 2 = 1 /\ (more \/ kept[1] % 2 = 1)
                    THEN BigAdd(kept, <<1>>)
                    ELSE kept,
                    e)
        Dropped(shifted, e) ==
            Nearest(shifted.quotient, DivSmall(shifted.quotient, 2).quotient,
                    inexact \/ ~shifted.exact, e)
        Sized(n) ==
            IF n = 0 THEN Zero
            ELSE IF n <= DBL_MANT_DIG
            THEN [neg |-> neg,
                  sig |-> ShiftLeft(mag, DBL_MANT_DIG - n),
                  exp |-> exp - (DBL_MANT_DIG - n)]
            ELSE Dropped(ShiftRight(mag, n - DBL_MANT_DIG - 1), exp + n - DBL_MANT_DIG)
    IN Sized(BitLen(mag))

\* the double of an integer
FromInt(n) == Round(n < 0, Limbs(Abs(n)), 0, FALSE)

\* operator- of one double
FNeg(x) == IF x.sig = <<>> THEN x ELSE [x EXCEPT !.neg = ~x.neg]

\* operator+ of double: the exact sum, rounded
FAdd(x, y) ==
    LET Sum(a, b) ==
            IF x.neg = y.neg THEN [neg |-> x.neg, mag |-> BigAdd(a, b)]
            ELSE IF BigLess(a, b) THEN [neg |-> y.neg, mag |-> BigSub(b, a)]
            ELSE [neg |-> x.neg, mag |-> BigSub(a, b)]
        Rounded(s, e) == Round(s.neg, s.mag, e, FALSE)
        Aligned(e) ==
            Rounded(Sum(ShiftLeft(x.sig, x.exp - e), ShiftLeft(y.sig, y.exp - e)), e)
    IN IF x.sig = <<>> THEN y
       ELSE IF y.sig = <<>> THEN x
       ELSE Aligned(IF x.exp < y.exp THEN x.exp ELSE y.exp)

\* operator- of double
FSub(x, y) == FAdd(x, FNeg(y))

\* operator* of double: the exact product, rounded
FMul(x, y) ==
    IF x.sig = <<>> \/ y.sig = <<>> THEN Zero
    ELSE Round(x.neg # y.neg, BigMul(x.sig, y.sig), x.exp + y.exp, FALSE)

\* the number of factors 2 of an integer n > 0
RECURSIVE TwoPart(_)
TwoPart(n) == IF n % 2 = 1 THEN 0 ELSE 1 + TwoPart(n \div 2)

\* the width of the parts in which DivChunked brings a digit down
ChunkBits == LimbBits \div 3

\* division of a by an integer d with 0 < d < 2^(31 - ChunkBits): as
\* DivSmallFrom, each digit of a being brought down in three parts of
\* ChunkBits binary digits
RECURSIVE DivChunkedFrom(_, _, _, _, _)
DivChunkedFrom(a, d, i, r, q) ==
    IF i = 0 THEN [quotient |-> Trim(q), remainder |-> r]
    ELSE LET chunk == TwoTo(ChunkBits)
             high == r * chunk + (a[i] \div (chunk * chunk))
             mid == (high % d) * chunk + ((a[i] \div chunk) % chunk)
             low == (mid % d) * chunk + (a[i] % chunk)
         IN DivChunkedFrom(a, d, i - 1, low % d,
                           <<((high \div d) * chunk + (mid \div d)) * chunk + (low \div d)>> \o q)

DivChunked(a, d) == DivChunkedFrom(a, d, Len(a), 0, <<>>)

\* operator/ of double, for a divisor y that is an odd integer below
\* 2^(31 - ChunkBits) times a power of 2 (1000.0 is 125 * 2^3, 3e8 is
\* 1171875 * 2^8): the quotient by the odd integer to more digits than a
\* significand holds, rounded
FDiv(x, y) ==
    LET Rounded(d, exp) == Round(x.neg # y.neg, d.quotient, exp, d.remainder # 0)
        ByOdd(high, twos, exp) ==
            Rounded(DivChunked(ShiftLeft(x.sig, 2 * LimbBits), high \div TwoTo(twos)),
                    x.exp - 2 * LimbBits - (exp + twos))
        ByHigh(high, exp) == ByOdd(high, TwoPart(high), exp)
        From(zeros) ==
            ByHigh(LimbsValue(SubSeq(y.sig, zeros + 1, Len(y.sig))),
                   y.exp + zeros * LimbBits)
    IN IF x.sig = <<>> THEN Zero
       ELSE From(CHOOSE n \in 0..(Len(y.sig) - 1) :
                     /\ \A i \in 1..n : y.sig[i] = 0
                     /\ y.sig[n + 1] # 0)

\* x <= y
FLessEq(x, y) == ~FSub(y, x).neg

\* std::abs
FAbs(x) == [x EXCEPT !.neg = FALSE]

\* the spacing of the doubles at the magnitude of x # 0
Ulp(x) == Round(FALSE, <<1>>, x.exp, FALSE)

\* the next double above x > 0
NextUp(x) == Round(FALSE, BigAdd(x.sig, <<1>>), x.exp, FALSE)

\* the next double below x > 0
NextDown(x) ==
    IF BitLen(BigSub(x.sig, <<1>>)) < DBL_MANT_DIG
    THEN [neg |-> FALSE,
          sig |-> BigSub(MulSmall(x.sig, 2), <<1>>),
          exp |-> x.exp - 1]
    ELSE [neg |-> FALSE, sig |-> BigSub(x.sig, <<1>>), exp |-> x.exp]

\* the double n places above (below, for n < 0) x > 0, for n in -1 .. 1
Neighbour(x, n) == IF n = 0 THEN x ELSE IF n > 0 THEN NextUp(x) ELSE NextDown(x)

\* the binary digit of weight 2^k of a
Bit(a, k) == (Limb(a, k \div LimbBits + 1) \div TwoTo(k % LimbBits)) % 2

\* one step of the integer square root of a, which takes two binary digits
\* of a at a time from the highest pair down: part holds the number of
\* pairs still to take, the root of the digits taken and what they leave
SqrtStep(a, part) ==
    LET Taken(rem, trial, twice) ==
            IF BigLess(rem, trial)
            THEN [pairs |-> part.pairs - 1, rem |-> rem, root |-> twice]
            ELSE [pairs |-> part.pairs - 1,
                  rem |-> BigSub(rem, trial),
                  root |-> BigAdd(twice, <<1>>)]
    IN IF part.pairs = 0 THEN part
       ELSE Taken(BigAdd(MulSmall(part.rem, 4),
                         Limbs(2 * Bit(a, 2 * part.pairs - 1)
                                 + Bit(a, 2 * part.pairs - 2))),
                  BigAdd(MulSmall(part.root, 4), <<1>>),
                  MulSmall(part.root, 2))

\* the integer square root of a, four steps at a time
RECURSIVE SqrtFrom(_, _)
SqrtFrom(a, part) ==
    IF part.pairs = 0 THEN part
    ELSE SqrtFrom(a, SqrtStep(a, SqrtStep(a, SqrtStep(a, SqrtStep(a, part)))))

\* std::sqrt of a double x >= 0: the root of the significand, brought to an
\* even exponent and to more digits than a significand holds, rounded
FSqrt(x) ==
    LET Rooted(r, e) == Round(FALSE, r.root, e, r.rem # <<>>)
        OfSquare(a, e) ==
            Rooted(SqrtFrom(a, [pairs |-> (BitLen(a) + 1) \div 2,
                                rem |-> <<>>, root |-> <<>>]),
                   e)
        Even(sig, e) == OfSquare(ShiftLimbs(sig, 4), e \div 2 - 2 * LimbBits)
    IN IF x.sig = <<>> THEN Zero
       ELSE IF x.exp % 2 = 0 THEN Even(x.sig, x.exp)
       ELSE Even(MulSmall(x.sig, 2), x.exp - 1)

\* the numerator of a decimal literal given by its digits in groups of
\* four, the highest group first: the integer the digits spell
RECURSIVE DigitsValue(_)
DigitsValue(groups) ==
    IF groups = <<>> THEN <<>>
    ELSE BigAdd(MulSmall(DigitsValue(SubSeq(groups, 1, Len(groups) - 1)), 10000),
                Limbs(groups[Len(groups)]))

\* a divided n times by 10000: the quotient, and whether nothing was lost
RECURSIVE DivGroups(_, _)
DivGroups(a, n) ==
    IF n = 0 THEN [quotient |-> a, exact |-> TRUE]
    ELSE LET Further(d, rest) ==
                 [quotient |-> rest.quotient, exact |-> rest.exact /\ d.remainder = 0]
             Divided(d) == Further(d, DivGroups(d.quotient, n - 1))
         IN Divided(DivSmall(a, 10000))

\* the double of a decimal literal with the given groups of four digits, of
\* which the last n stand after the point: the double nearest to it
FromDecimal(groups, n) ==
    LET Rounded(d) == Round(FALSE, d.quotient, -(2 * FixBits), ~d.exact)
    IN Rounded(DivGroups(ShiftLimbs(DigitsValue(groups), 2 * FixLimbs), n))

\* M_PI of <cmath>: 3.14159265358979323846
M_PI == FromDecimal(<<3, 1415, 9265, 3589, 7932, 3846>>, 5)

\* a * b for two numbers in fixed point with FixBits binary digits after
\* the point
FixMul(a, b) ==
    LET Product(p) == SubSeq(p, FixLimbs + 1, Len(p))
    IN IF a = <<>> \/ b = <<>> THEN <<>> ELSE Product(BigMul(a, b))

\* 1 in fixed point
One == ShiftLimbs(<<1>>, FixLimbs)

\* 1 / d in fixed point, for 1 <= d < 4: an estimate from the leading
\* digits of d, and three steps of Newton's iteration r (2 - d r), each of
\* which doubles the number of right digits
Reciprocal(d) ==
    LET Newton(r) == FixMul(r, BigSub(MulSmall(One, 2), FixMul(d, r)))
        From(top) ==
            Newton(Newton(Newton(
                ShiftLimbs(Limbs(TwoTo(2 * LimbBits - 2) \div top), FixLimbs - 1))))
    IN From(LimbsValue(ShiftRight(d, FixBits - (LimbBits - 2)).quotient))

\* the series z + z^3 / 3 + z^5 / 5 + ... of atanh(z) from the term
\* z^(2 k + 1) / (2 k + 1) on, for w = z^2: part holds that power of z and
\* the sum of the terms before; the series ends with the first power that
\* is 0 in fixed point
RECURSIVE AtanhFrom(_, _, _)
AtanhFrom(w, k, part) ==
    IF part.power = <<>> THEN part.sum
    ELSE AtanhFrom(w, k + 1,
                   [power |-> FixMul(part.power, w),
                    sum |-> BigAdd(part.sum, DivSmall(part.power, 2 * k + 1).quotient)])

\* 2 atanh(z) = ln((1 + z) / (1 - z)) in fixed point, for 0 <= z <= 1/3
TwoAtanh(z) == MulSmall(AtanhFrom(FixMul(z, z), 0, [power |-> z, sum |-> <<>>]), 2)

\* ln 2 = 2 atanh(1/3), ln 10 = 3 ln 2 + 2 atanh(1/9) and 1 / ln 10
LnTwo == TwoAtanh(DivSmall(One, 3).quotient)
LnTen == BigAdd(MulSmall(LnTwo, 3), TwoAtanh(DivSmall(One, 9).quotient))
InvLnTen == Reciprocal(LnTen)

\* the sum of two numbers given by sign and magnitude
SignedSum(xneg, a, yneg, b) ==
    IF xneg = yneg THEN [neg |-> xneg, mag |-> BigAdd(a, b)]
    ELSE IF BigLess(a, b) THEN [neg |-> yneg, mag |-> BigSub(b, a)]
    ELSE [neg |-> xneg, mag |-> BigSub(a, b)]

\* the double nearest to log10(x), for a double x > 0. With x = m * 2^e
\* and 3/4 <= m < 3/2, log10(x) = (e ln 2 + ln m) / ln 10 and
\* ln m = 2 atanh((m - 1) / (m + 1)), computed in fixed point to more
\* digits than a significand holds, rounded
FLog10(x) ==
    LET OverLnTen(s) == Round(s.neg, FixMul(s.mag, InvLnTen), -FixBits, TRUE)
        Signed(e, neg, lnm) == OverLnTen(SignedSum(e < 0, MulSmall(LnTwo, Abs(e)), neg, lnm))
        Ratio(num, den) ==
            FixMul(ShiftLeft(num, FixBits - DBL_MANT_DIG),
                   Reciprocal(ShiftLeft(den, FixBits - DBL_MANT_DIG)))
        Reduced(one, e) ==
            IF BigLess(x.sig, one)
            THEN Signed(e, TRUE, TwoAtanh(Ratio(BigSub(one, x.sig), BigAdd(x.sig, one))))
            ELSE Signed(e, FALSE, TwoAtanh(Ratio(BigSub(x.sig, one), BigAdd(x.sig, one))))
    IN IF BigLess(x.sig, ShiftLeft(<<3>>, DBL_MANT_DIG - 2))
       THEN Reduced(ShiftLeft(<<1>>, DBL_MANT_DIG - 1), x.exp + DBL_MANT_DIG - 1)
       ELSE Reduced(ShiftLeft(<<1>>, DBL_MANT_DIG), x.exp + DBL_MANT_DIG)

\* the integer nearest to x * scale, for a double x >= 0 with
\* x * scale < 2^30
ToFixed(x, scale) ==
    LET HalfUp(upper) ==
            IF upper = <<>> THEN 0
            ELSE LimbsValue(DivSmall(upper, 2).quotient) + (upper[1] % 2)
        Fixed(p) ==
            IF p.sig = <<>> THEN 0
            ELSE IF p.exp >= 0 THEN LimbsValue(ShiftLeft(p.sig, p.exp))
            ELSE HalfUp(ShiftRight(p.sig, -p.exp - 1).quotient)
    IN Fixed(FMul(x, FromInt(scale)))

----------------------------------------------------------------------------
(* Atmospheric losses computed by main of the Ka-band scenario *)

\* the 1000.0 a length in metres is divided by: metres per km
KmScale == 1000

\* the literals of the loss coefficients are written in units of
\* 1 / CoeffScale dB per km
CoeffScale == 100

\* rainAttenuation{3.0}, oxygenAbsorption{0.1}, waterVaporAbsorption{0.05}
rainAttenuation == 300
oxygenAbsorption == 10
waterVaporAbsorption == 5

\* the double of a literal given in units of 1 / CoeffScale
Literal(c) == FDiv(FromInt(c), FromInt(CoeffScale))

\* rainCloudHeight{5000.0} and denseAtmosphereThickness = 20000.0, metres
rainCloudHeight == 5000
denseAtmosphereThickness == 20000

\* values of the hight option explored: multiples of HeightStep metres
HeightStep == 100
MaxHeightSteps == 300
KaHeights == {k * HeightStep : k \in 0..MaxHeightSteps}

\* std::min
Min(a, b) == IF a < b THEN a ELSE b

\* metres / 1000.0: a length in km
PathKm(metres) == FDiv(FromInt(metres), FromInt(KmScale))

\* the ground (Wi-Fi) links: the path from the platform down to the ground
RainLossGround(hight) ==
    FMul(Literal(rainAttenuation), PathKm(Min(hight, rainCloudHeight)))

GasPathLengthGround(hight) == PathKm(Min(hight, denseAtmosphereThickness))

TotalAtmosphericLossGround(hight) ==
    LET OxygenLossGround(gasPathLengthGround) ==
            FMul(Literal(oxygenAbsorption), gasPathLengthGround)
        VaporLossGround(gasPathLengthGround) ==
            FMul(Literal(waterVaporAbsorption), gasPathLengthGround)
        Summed(gasPathLengthGround) ==
            FAdd(FAdd(RainLossGround(hight), OxygenLossGround(gasPathLengthGround)),
                 VaporLossGround(gasPathLengthGround))
    IN Summed(GasPathLengthGround(hight))

\* a variant of the satellite-link total that reuses the ground-link total
TotalAtmosphericLoss_AsGround(hight) == TotalAtmosphericLossGround(hight)

\* the satellite link: the path from the platform up through what is left
\* of each layer above it
RainLoss(hight) ==
    IF hight < rainCloudHeight
    THEN FDiv(FMul(Literal(rainAttenuation), FromInt(rainCloudHeight - hight)),
              FromInt(KmScale))
    ELSE Zero

GasPathLength(hight) ==
    IF hight < denseAtmosphereThickness
    THEN PathKm(denseAtmosphereThickness - hight)
    ELSE Zero

TotalAtmosphericLoss(hight) ==
    LET OxygenLoss(gasPathLength) == FMul(Literal(oxygenAbsorption), gasPathLength)
        VaporLoss(gasPathLength) == FMul(Literal(waterVaporAbsorption), gasPathLength)
        Summed(gasPathLength) ==
            FAdd(FAdd(RainLoss(hight), OxygenLoss(gasPathLength)),
                 VaporLoss(gasPathLength))
    IN Summed(GasPathLength(hight))

\* a loss in dB is read to five decimals: in units of 1 / DbScale dB
DbScale == CoeffScale * KmScale

Decimals(x) == ToFixed(x, DbScale)

\* the ReferenceLoss literals of the two ground channels: 40.0 dB (2.4 GHz)
\* and 46.7 dB (5 GHz), in tenths of a dB
RefLossWifiA == 400
RefLossWifiB == 467
TenthDb(x) == FDiv(FromInt(x), FromInt(10))

\* carrier frequencies of the four satellite channels, MHz
freqHap1Up == 30000
freqHap1Down == 28000
freqHap2Up == 29000
freqHap2Down == 27000

\* a frequency in Hz: the double of the literal 30.0e9, 28.0e9, 29.0e9 or
\* 27.0e9
HzPerMHz == 1000000
Hertz(freqMHz) == FMul(FromInt(freqMHz), FromInt(HzPerMHz))

\* 4 * M_PI / 3e8
SpeedOfLight == 300000000
FourPiOverC == FDiv(FMul(FromInt(4), M_PI), FromInt(SpeedOfLight))

\* 20 * log10(x), the logarithm being the double nearest to log10(x)
TwentyLog10(x) == FMul(FromInt(20), FLog10(x))

\* 20 * log10(4 * M_PI / 3e8)
TwentyLog10FourPiOverC == TwentyLog10(FourPiOverC)

\* 20 * log10(freq) of the four carriers, by the frequency in MHz
TwentyLog10Freq ==
    [freqMHz \in {freqHap1Up, freqHap1Down, freqHap2Up, freqHap2Down} |->
        TwentyLog10(Hertz(freqMHz))]

\* 20 * log10(freq) + 20 * log10(4 * M_PI / 3e8) for a carrier in MHz
RefLossAt1m(freqMHz) == FAdd(TwentyLog10Freq[freqMHz], TwentyLog10FourPiOverC)

\* a variant of the satellite reference loss that adds the atmospheric
\* loss of the satellite link
RefLossSat_WithAtmosphere(freqMHz, totalAtmosphericLoss) ==
    FAdd(RefLossAt1m(freqMHz), totalAtmosphericLoss)

\* refLossH1Up, refLossH1Down, refLossH2Up, refLossH2Down
RefLossSat(freqMHz) == RefLossAt1m(freqMHz)

\* the propagation channels main builds
GroundChannels == {"wifiChannelA", "wifiChannelB"}
SatChannels == {"wifiChannelSatUp_H1", "wifiChannelSatDown_H1",
                "wifiChannelSatUp_H2", "wifiChannelSatDown_H2"}
Channels == GroundChannels \cup SatChannels

\* the carrier of a satellite channel
ChannelFreq(ch) ==
    CASE ch = "wifiChannelSatUp_H1" -> freqHap1Up
      [] ch = "wifiChannelSatDown_H1" -> freqHap1Down
      [] ch = "wifiChannelSatUp_H2" -> freqHap2Up
      [] ch = "wifiChannelSatDown_H2" -> freqHap2Down

\* the ReferenceLoss attribute main gives to the LogDistance model of each
\* channel: 40.0 + totalAtmosphericLossGround, 46.7 +
\* totalAtmosphericLossGround, and the four refLoss of the satellite channels
ReferenceLoss(totalAtmosphericLossGround) ==
    [ch \in Channels |->
        CASE ch = "wifiChannelA" -> FAdd(TenthDb(RefLossWifiA), totalAtmosphericLossGround)
          [] ch = "wifiChannelB" -> FAdd(TenthDb(RefLossWifiB), totalAtmosphericLossGround)
          [] OTHER -> RefLossSat(ChannelFreq(ch))]

\* satTxPower{50.0}, satAntGain{50.}, hapSatAntGain{45.}, and the 30 of the
\* dBm to dBW conversion, dB
satTxPower == 50
satAntGain == 50
hapSatAntGain == 45
DbmToDbw == 30

\* a literal in whole dB as a double
Db(x) == FromInt(x)

\* groupDistance{100000.0}, satelliteDistance{35786000.0} and the 3000.0 of
\* the satellite's position, metres
groupDistance == 100000
satelliteDistance == 35786000
SatelliteY == 3000

\* the positions Install gives to HAP 1 (first of the list) and to the
\* satellite (seventh), metres
Hap1Position(hight) == <<0, 0, hight>>
SatellitePosition == <<groupDistance \div 2, SatelliteY, satelliteDistance>>

\* MobilityModel::GetDistanceFrom: the length
\* std::sqrt(x * x + y * y + z * z) of the vector between two positions,
\* metres
GetDistanceFrom(a, b) ==
    LET Length(x, y, z) == FSqrt(FAdd(FAdd(FMul(x, x), FMul(y, y)), FMul(z, z)))
        Of(v) == Length(FromInt(v[1]), FromInt(v[2]), FromInt(v[3]))
    IN Of(GetVector(a, b))

\* the doubles std::log10 may return for the distance: the double nearest
\* to the logarithm or one of its two neighbours (a library's log10 is not
\* bound to return the nearest double), ulps places above the nearest
LogUlps == {-1, 0, 1}

\* fsplHap1Sat = 20 log10(distance) + 20 log10(freqHap1Down)
\*               + 20 log10(4 pi / 3e8), the distance being in metres
FsplHap1Sat(hight, ulps) ==
    FAdd(FAdd(FMul(FromInt(20),
                   Neighbour(FLog10(GetDistanceFrom(Hap1Position(hight),
                                                    SatellitePosition)),
                             ulps)),
              TwentyLog10Freq[freqHap1Down]),
         TwentyLog10FourPiOverC)

\* eirpSat = satTxPower - 30 + satAntGain
Eirp(txPower, txAntennaGain) == FAdd(FSub(txPower, Db(DbmToDbw)), txAntennaGain)

\* a variant of the received power in which the atmospheric loss is added
ReceivedPower_AtmosphereAdded(eirp, fspl, atmosphericLoss, rxAntennaGain) ==
    FAdd(FAdd(FSub(eirp, fspl), atmosphericLoss), rxAntennaGain)

\* receivedPower = eirpSat - fsplHap1Sat - totalAtmosphericLoss + hapSatAntGain
ReceivedPower(eirp, fspl, atmosphericLoss, rxAntennaGain) ==
    FAdd(FSub(FSub(eirp, fspl), atmosphericLoss), rxAntennaGain)

\* main of the Ka-band scenario, as far as the channels and the link
\* budget: the hight option is read, both atmospheric totals are computed,
\* the channels get their reference losses and the link budget of the
\* satellite to HAP 1 link is evaluated
KaBandBudget(hight, ulps) ==
    /\ budget = NoBudget
    /\ budget' =
          LET Computed(totalAtmosphericLossGround, fsplHap1Sat, totalAtmosphericLoss,
                       eirpSat) ==
                  [computed |-> TRUE,
                   hight |-> hight,
                   totalAtmosphericLossGround |-> totalAtmosphericLossGround,
                   totalAtmosphericLoss |-> totalAtmosphericLoss,
                   referenceLoss |-> ReferenceLoss(totalAtmosphericLossGround),
                   fsplHap1Sat |-> fsplHap1Sat,
                   eirpSat |-> eirpSat,
                   receivedPower |-> ReceivedPower(eirpSat, fsplHap1Sat,
                                                   totalAtmosphericLoss,
                                                   Db(hapSatAntGain))]
          IN Computed(TotalAtmosphericLossGround(hight), FsplHap1Sat(hight, ulps),
                      TotalAtmosphericLoss(hight), Eirp(Db(satTxPower), Db(satAntGain)))
    /\ UNCHANGED <<plaVars, linkVars, hapVars, call, traffic>>

NextBudget == \E h \in KaHeights, ulps \in LogUlps : KaBandBudget(h, ulps)

SpecBudget == Init /\ [][NextBudget]_vars

----------------------------------------------------------------------------
(* Vocabulary of the properties *)

Fields == {"txPackets", "rxPackets", "rxDropped"}

\* map `after` is map `before` with counter `field` of key k one larger
\* (the entry being created from zeros when k was absent) and nothing else
\* different
OnlyBumped(before, after, k, field) ==
    /\ DOMAIN after = (DOMAIN before) \cup {k}
    /\ \A f \in Fields :
          after[k][f] = Entry(before, k)[f] + (IF f = field THEN 1 ELSE 0)
    /\ \A o \in (DOMAIN before) \ {k} : after[o] = before[o]

\* the handlers are connected and the run has not ended
Running == pc = "run" /\ traced # {}

----------------------------------------------------------------------------
(* C1 *)

\* C1: PhyTxBeginCallback at an interface of node S for a frame with
\* destination D leaves g_flowStats as it is when D is a group address or is
\* not registered; otherwise it adds exactly 1 to txPackets of the key
\* (S, registry[D]) and changes nothing else.
C1_TxBeginCountsResolvedUnicast ==
    Running =>
        \A dev \in traced : \A p \in PacketsAt(dev) :
            LET after == PhyTxBeginCallback(g_flowStats, g_macToNodeId, dev, p)
                D == p.addr1
            IN IF IsGroup(D) \/ D \notin DOMAIN g_macToNodeId
               THEN after = g_flowStats
               ELSE OnlyBumped(g_flowStats, after,
                               <<Devices[dev].node, g_macToNodeId[D]>>, "txPackets")

\* a transmit-begin event of UT_1_1 towards HAP_1 has been counted
C1_Witness ==
    /\ Running
    /\ <<UT_1_1, HAP_1>> \in DOMAIN g_flowStats
    /\ g_flowStats[<<UT_1_1, HAP_1>>].txPackets = 1
    /\ g_flowStats[<<UT_1_1, HAP_1>>].rxPackets = 0

----------------------------------------------------------------------------
(* C2 *)

\* C2: PhyRxEndCallback at an interface of node R with own address M adds 1
\* to rxPackets of (registry[A], R) exactly when the header parses, the
\* destination is M or the broadcast address, and the source A is
\* registered; in every other case g_flowStats does not change.
C2_RxEndCountsAddressedFrames ==
    Running =>
        \A dev \in traced : \A p \in PacketsAt(dev) :
            LET after == PhyRxEndCallback(g_flowStats, g_macToNodeId, dev, p)
                counted == /\ p.parses
                           /\ (p.addr1 = Devices[dev].mac \/ p.addr1 = BroadcastMac)
                           /\ p.addr2 \in DOMAIN g_macToNodeId
            IN IF counted
               THEN OnlyBumped(g_flowStats, after,
                               <<g_macToNodeId[p.addr2], Devices[dev].node>>, "rxPackets")
               ELSE after = g_flowStats

\* a receive-success event at UT_1_2 for a frame of HAP_1 has been counted
C2_Witness ==
    /\ Running
    /\ <<HAP_1, UT_1_2>> \in DOMAIN g_flowStats
    /\ g_flowStats[<<HAP_1, UT_1_2>>].rxPackets = 1

----------------------------------------------------------------------------
(* C3 *)

\* C3: PhyRxDropCallback at an interface of node R ignores a frame whose
\* header does not parse; when it parses and the source A is registered it
\* adds exactly 1 to rxDropped of (registry[A], R); when A is not registered
\* nothing changes.
C3_RxDropCountsParsedRegistered ==
    Running =>
        \A dev \in traced : \A p \in PacketsAt(dev) :
            LET after == PhyRxDropCallback(g_flowStats, g_macToNodeId, dev, p)
            IN IF ~p.parses THEN after = g_flowStats
               ELSE IF p.addr2 \in DOMAIN g_macToNodeId
               THEN OnlyBumped(g_flowStats, after,
                               <<g_macToNodeId[p.addr2], Devices[dev].node>>, "rxDropped")
               ELSE after = g_flowStats

\* a receive-drop event at HAP_1 for a frame of UT_1_2 has been counted
C3_Witness ==
    /\ Running
    /\ <<UT_1_2, HAP_1>> \in DOMAIN g_flowStats
    /\ g_flowStats[<<UT_1_2, HAP_1>>].rxDropped = 1

----------------------------------------------------------------------------
(* C4 *)

\* C4: an event whose looked-up address (the destination for transmit-begin,
\* the source for receive-success and receive-drop) is not in the registry
\* never adds a flow key: the key set after the event is the key set before.
C4_LookupMissAddsNoKey ==
    Running =>
        \A dev \in traced : \A p \in PacketsAt(dev) :
            /\ p.addr1 \notin DOMAIN g_macToNodeId =>
                  DOMAIN PhyTxBeginCallback(g_flowStats, g_macToNodeId, dev, p)
                      = DOMAIN g_flowStats
            /\ p.addr2 \notin DOMAIN g_macToNodeId =>
                  /\ DOMAIN PhyRxEndCallback(g_flowStats, g_macToNodeId, dev, p)
                        = DOMAIN g_flowStats
                  /\ DOMAIN PhyRxDropCallback(g_flowStats, g_macToNodeId, dev, p)
                        = DOMAIN g_flowStats

\* events have been counted under two keys while the zero, broadcast and
\* multicast addresses are not registered
C4_Witness ==
    /\ Running
    /\ Cardinality(DOMAIN g_flowStats) = 2
    /\ {ZeroMac, BroadcastMac, MulticastMac} \cap DOMAIN g_macToNodeId = {}

----------------------------------------------------------------------------
(* C5 *)

\* the flow key of the single link
LinkKey == <<Devices[LinkSender].node, Devices[LinkReceiver].node>>

\* C5: on the single point-to-point link, where every receive event at the
\* receiver belongs to a frame of the sender and a frame has at most one
\* outcome, txPackets >= rxPackets for the link's key at all times and the
\* reported lossRatio of the link lies in [0, 100].
C5_LinkTxAtLeastRxAndLossInRange ==
    /\ Entry(g_flowStats, LinkKey).txPackets >= Entry(g_flowStats, LinkKey).rxPackets
    /\ \A i \in DOMAIN report :
          (report[i].srcId = LinkKey[1] /\ report[i].dstId = LinkKey[2]) =>
              /\ report[i].lossRatio[1] >= 0
              /\ report[i].lossRatio[1] <= 100 * report[i].lossRatio[2]

----------------------------------------------------------------------------
(* C6 *)

\* map `after` is map `before`, or differs from it by one counter of one
\* entry being one larger
AtMostOneBump(before, after) ==
    \/ after = before
    \/ \E k \in DOMAIN after, f \in Fields : OnlyBumped(before, after, k, f)

\* C6: every invocation of a trace handler changes at most one counter of at
\* most one flow entry, by exactly +1, and leaves the registry and every
\* other entry unchanged; the registry is written only by PopulateMacTable,
\* once, before any handler is connected.
C6_HandlersBumpOneCounterRegistryFrozen ==
    [][ /\ (pc = "run" /\ pc' = "run") =>
              /\ AtMostOneBump(g_flowStats, g_flowStats')
              /\ g_macToNodeId' = g_macToNodeId
        /\ (g_macToNodeId' # g_macToNodeId) =>
              /\ pc = "setup" /\ pc' = "populated"
              /\ traced = {} /\ traced' = {}
              /\ g_macToNodeId = EmptyMap
        /\ (pc # "setup") => (pc' # "setup") ]_vars

\* two handler invocations have been counted under one key, in two counters,
\* with all four interfaces registered
C6_Witness ==
    /\ Running
    /\ Cardinality(DOMAIN g_macToNodeId) = Len(Devices)
    /\ \E k \in DOMAIN g_flowStats :
          /\ g_flowStats[k].txPackets = 1
          /\ g_flowStats[k].rxDropped = 1

----------------------------------------------------------------------------
(* C7 *)

----------------------------------------------------------------------------
(* C8 *)

\* C8: every row of the link report has lossRatio = rxDropped / txPackets x
\* 100 when txPackets > 0 and lossRatio = 0 when txPackets = 0; 10
\* transmitted frames with 3 drops and 7 receives are reported as 30.0 %.
C8_LossRatioFormula ==
    pc = "reported" =>
        \A i \in DOMAIN report :
            LET row == report[i]
                st == g_flowStats[<<row.srcId, row.dstId>>]
                num == row.lossRatio[1]
                den == row.lossRatio[2]
            IN /\ den > 0
               /\ IF st.txPackets > 0
                  THEN num * st.txPackets = st.rxDropped * 100 * den
                  ELSE num = 0
               /\ (st.txPackets = 10 /\ st.rxDropped = 3 /\ st.rxPackets = 7)
                      => num = 30 * den

\* the report has a row with 10 transmitted, 7 received and 3 dropped frames
C8_Witness ==
    /\ pc = "reported"
    /\ \E i \in DOMAIN report :
          /\ report[i].txPackets = 10
          /\ report[i].rxPackets = 7
          /\ report[i].rxDropped = 3

----------------------------------------------------------------------------
(* C9 *)

\* the keys of s ascend strictly in the order of (sourceId, destId)
Ascending(s) == \A i \in 1..(Len(s) - 1) : KeyLess(s[i], s[i + 1])

Range(s) == {s[i] : i \in DOMAIN s}

\* C9: the link report lists exactly the flow keys with at least one
\* non-zero counter, each once, in ascending order of (sourceId, destId), one
\* row per listed key, and producing it changes no counter and adds no key.
C9_ReportListsActiveKeysInOrder ==
    [][ (pc = "run" /\ pc' = "reported") =>
            /\ Range(flowKeys') =
                  {k \in DOMAIN g_flowStats :
                      \E f \in Fields : g_flowStats[k][f] # 0}
            /\ Ascending(flowKeys')
            /\ Len(report') = Len(flowKeys')
            /\ \A i \in DOMAIN report' :
                  /\ <<report'[i].srcId, report'[i].dstId>> = flowKeys'[i]
                  /\ report'[i].txPackets = g_flowStats[flowKeys'[i]].txPackets
                  /\ report'[i].rxPackets = g_flowStats[flowKeys'[i]].rxPackets
                  /\ report'[i].rxDropped = g_flowStats[flowKeys'[i]].rxDropped
            /\ g_flowStats' = g_flowStats ]_vars

\* a report of two flows, the second of which never transmitted
C9_Witness ==
    /\ pc = "reported"
    /\ Len(flowKeys) = 2
    /\ report[2].txPackets = 0

----------------------------------------------------------------------------
(* C10 *)

\* square of the horizontal speed of velocity v, (cm/s)^2
SpeedSq(v) == v[1] * v[1] + v[2] * v[2]

\* g_circleRadius * g_angularVelocity, cm/s
NominalSpeed == TimesOmega(g_circleRadius * PosScale)

\* relative tolerance on the squared speed: one part in SpeedTolerance
SpeedTolerance == 1000

\* C10: at every tick of UpdateHapState the speed set on the platform is
\* g_circleRadius x g_angularVelocity (the platform is still on the circle of
\* the configured radius), within one part in SpeedTolerance on the square.
C10_SpeedIsRadiusTimesOmega ==
    simNow >= 1 =>
        LET nominalSq == NominalSpeed * NominalSpeed
            diff == SpeedSq(hapVel) - nominalSq
        IN /\ diff <= nominalSq \div SpeedTolerance
           /\ -diff <= nominalSq \div SpeedTolerance

----------------------------------------------------------------------------
(* C11 *)

\* g_angularVelocity * c, as the velocity update computes it
OmegaTimes(c) ==
    RoundDiv(OmegaNum * c, IF variant = "longrun" THEN OmegaDenLong ELSE OmegaDen)

\* x * vx + y * vy for the position in metres and the velocity in cm/s
RadialSpeedProduct(pos, vel) ==
    RoundDiv(pos[1], PosScale) * vel[1] + RoundDiv(pos[2], PosScale) * vel[2]

\* the largest value of RadialSpeedProduct that rounding to the fixed-point
\* grid can give to perpendicular vectors
RoundingSlack(pos, vel) ==
    Abs(RoundDiv(pos[1], PosScale)) + Abs(RoundDiv(pos[2], PosScale))
        + Abs(vel[1]) + Abs(vel[2])

\* C11: after every tick the velocity of the platform is
\* (-omega * y, omega * x, 0) for its position (x, y, z) at the tick: it is
\* perpendicular to the horizontal radius (x * vx + y * vy = 0 up to
\* rounding) and has no vertical component, and the altitude of the
\* platform is the one it was installed at.
C11_VelocityIsTangentAltitudeFixed ==
    /\ tickCount >= 1 =>
          /\ hapVel = <<-OmegaTimes(hapPos[2]), OmegaTimes(hapPos[1]), 0>>
          /\ Abs(RadialSpeedProduct(hapPos, hapVel)) <= RoundingSlack(hapPos, hapVel)
    /\ hapVel[3] = 0
    /\ \A d \in GroundDistanceChoices : hapPos[3] = HapStart(d)[3]

\* a tick has set a velocity with both horizontal components non-zero
C11_Witness ==
    /\ tickCount >= 10
    /\ hapVel[1] # 0
    /\ hapVel[2] # 0

----------------------------------------------------------------------------
(* C12 *)

\* C12: the tick is strictly periodic at 0.1 s: once main has scheduled the
\* first one, exactly one invocation is pending, 0.1 s after the last one
\* executed (0.1 s after the start before the first), and the k-th
\* invocation executes at k x 0.1 s, so the invocations execute in
\* increasing time order.
C12_TickStrictlyPeriodic ==
    variant # "unset" =>
        /\ tickQueue = <<tickCount + 1>>
        /\ ~simStopped => simNow = tickCount

\* the fifth tick has executed at 0.5 s and the sixth is pending at 0.6 s
C12_Witness ==
    /\ tickCount = 5
    /\ simNow = 5
    /\ tickQueue = <<6>>

----------------------------------------------------------------------------
(* C13 *)

\* C13: no UpdateHapState executes at or beyond the stop time (120 s, or
\* 3600 s in the long-run variant): every executed invocation ran before
\* it, and once the simulation has stopped the last scheduled invocation is
\* still pending, at the stop time, never cancelled and never executed.
C13_NoTickBeyondStop ==
    /\ tickCount < StopTicks
    /\ (tickCount >= 1 /\ ~simStopped) => simNow < StopTicks
    /\ simStopped => /\ tickQueue = <<StopTicks>>
                     /\ tickCount = StopTicks - 1

\* the long-run variant has stopped at 3600 s with its last invocation
\* still pending
C13_Witness ==
    /\ simStopped
    /\ variant = "longrun"
    /\ simNow = StopSecondsLong * TicksPerSecond
    /\ tickQueue # <<>>

----------------------------------------------------------------------------
(* C14 *)

\* C14: after every tick TxGain and RxGain of the PHY towards A both equal
\* the gain at the angle between the view vector (platform to origin) and
\* the vector platform to A, and those of the PHY towards B the gain at the
\* angle between the same view vector and the vector platform to B, all
\* from the position of the platform at the tick; the gain of one link does
\* not involve the position of the other ground station.
C14_GainsFollowOwnTarget ==
    tickCount >= 1 =>
        LET view == GetVector(hapPos, Origin)
            gainA == CalculateDirectionalGain(
                         CalculateAngle(view, GetVector(hapPos, posNodeA)))
            gainB == CalculateDirectionalGain(
                         CalculateAngle(view, GetVector(hapPos, posNodeB)))
        IN /\ phyHapA = [TxGain |-> gainA, RxGain |-> gainA]
           /\ phyHapB = [TxGain |-> gainB, RxGain |-> gainB]

\* a tick has set different gains above the floor on the two PHYs
C14_Witness ==
    /\ tickCount >= 1
    /\ phyHapA.TxGain > MinGain
    /\ phyHapB.TxGain > MinGain
    /\ phyHapA.TxGain # phyHapB.TxGain

----------------------------------------------------------------------------
(* C15 *)

\* C15: the gain CalculateDirectionalGain returns, which a tick sets as
\* TxGain and RxGain of both PHYs, is never below the floor of -20 dB,
\* whatever the angle and the configured maximum gain.
C15_GainNeverBelowFloor ==
    tickCount >= 1 =>
        /\ phyHapA.TxGain >= MinGain
        /\ phyHapA.RxGain >= MinGain
        /\ phyHapB.TxGain >= MinGain
        /\ phyHapB.RxGain >= MinGain

----------------------------------------------------------------------------
(* C16 *)

\* angles of the grid below angleRad: the next lower ones and the boresight
PriorAngles(angleRad) ==
    {a \in {angleRad - MilliRad, angleRad - 10 * MilliRad, angleRad - 100 * MilliRad, 0} :
        a >= 0 /\ a <= angleRad}

\* C16: between 0 and 90 degrees the gain does not increase with the
\* angle: for angles t1 <= t2 of [0, pi/2] the gain at t1 is at least the
\* gain at t2, also across the switch to the floor, for every configured
\* maximum gain (stated for each angle of the grid against the angles just
\* below it, which gives every pair of the grid).
C16_GainNonIncreasing ==
    (call.fn = "gain" /\ call.angle <= HalfPi) =>
        \A t1 \in PriorAngles(call.angle) :
            CalculateDirectionalGain(t1) >= call.gain

----------------------------------------------------------------------------
(* C17 *)

\* C17: for every angle whose cosine is below 0.01, 90 degrees and beyond
\* included (the cosine is clamped to 0 there), the function returns exactly
\* -20 dB and does not evaluate the logarithm.
C17_FloorBelowCosThreshold ==
    (call.fn = "gain" /\ Cos(call.angle) < CosThreshold) =>
        /\ call.gain = -20 * GainScale
        /\ ~call.logEvaluated

\* the function has been called beyond 90 degrees and has returned the floor
C17_Witness ==
    /\ call.fn = "gain"
    /\ call.angle > HalfPi
    /\ call.gain = MinGain

----------------------------------------------------------------------------
(* C18 *)

\* C18: at an angular offset of 0 the gain is the configured maximum gain
\* (20 dBi by default).
C18_BoresightGainIsMaxGain ==
    (call.fn = "gain" /\ call.angle = 0) => call.gain = g_maxAntennaGain

\* the function has been called at offset 0 with a maximum gain of 10 dBi
C18_Witness ==
    /\ call.fn = "gain"
    /\ call.angle = 0
    /\ call.gain = 10 * GainScale

----------------------------------------------------------------------------
(* C19 *)

\* the vectors a tick pairs with its view vector in CalculateAngle
TargetVectors == {GetVector(hapPos, posNodeA), GetVector(hapPos, posNodeB)}

\* C19: CalculateAngle returns 0 whenever either vector is null, and an
\* angle in [0, pi] otherwise (it is defined for every pair of vectors);
\* so a tick at which the platform is on a ground station or on the look-at
\* point sets the gain of that link to the maximum gain.
C19_NullVectorGivesZeroAngle ==
    /\ \A v \in TargetVectors \cup {GetVector(hapPos, Origin), Origin} :
          /\ CalculateAngle(Origin, v) = 0
          /\ CalculateAngle(v, Origin) = 0
    /\ \A w \in TargetVectors :
          LET angle == CalculateAngle(GetVector(hapPos, Origin), w)
          IN angle >= 0 /\ angle <= Pi
    /\ tickCount >= 1 =>
          /\ (hapPos = posNodeA \/ hapPos = Origin) =>
                phyHapA = [TxGain |-> g_maxAntennaGain, RxGain |-> g_maxAntennaGain]
          /\ (hapPos = posNodeB \/ hapPos = Origin) =>
                phyHapB = [TxGain |-> g_maxAntennaGain, RxGain |-> g_maxAntennaGain]

\* a tick has found the platform on the look-at point, away from ground
\* station A, and has set the maximum gain on the PHY towards A
C19_Witness ==
    /\ tickCount >= 1
    /\ hapPos = Origin
    /\ posNodeA # hapPos
    /\ phyHapA.TxGain = g_maxAntennaGain
    /\ phyHapB.TxGain = g_maxAntennaGain

----------------------------------------------------------------------------
(* C20 *)

\* what is left of a layer of the given height above the altitude, metres
Above(altitude, layer) == IF altitude < layer THEN layer - altitude ELSE 0

\* C20: the total atmospheric loss folded into the reference loss of the
\* ground links is rain x min(altitude, rain layer) / 1000 + oxygen x
\* min(altitude, dense atmosphere) / 1000 + vapour x min(altitude, dense
\* atmosphere) / 1000, the path below the platform; the total used in the
\* satellite link budget is the same sum over the path above the platform,
\* max(layer - altitude, 0) in place of min(altitude, layer).
C20_AtmosphericLossByPath ==
    budget.computed =>
        /\ Decimals(budget.totalAtmosphericLossGround) =
              rainAttenuation * Min(budget.hight, rainCloudHeight)
                + oxygenAbsorption * Min(budget.hight, denseAtmosphereThickness)
                + waterVaporAbsorption * Min(budget.hight, denseAtmosphereThickness)
        /\ Decimals(budget.totalAtmosphericLoss) =
              rainAttenuation * Above(budget.hight, rainCloudHeight)
                + oxygenAbsorption * Above(budget.hight, denseAtmosphereThickness)
                + waterVaporAbsorption * Above(budget.hight, denseAtmosphereThickness)

\* the claim as stated: both totals are the sum over min(altitude, layer)
C20_BothTotalsOverPathBelow ==
    budget.computed =>
        LET below ==
                rainAttenuation * Min(budget.hight, rainCloudHeight)
                  + oxygenAbsorption * Min(budget.hight, denseAtmosphereThickness)
                  + waterVaporAbsorption * Min(budget.hight, denseAtmosphereThickness)
        IN /\ Decimals(budget.totalAtmosphericLossGround) = below
           /\ Decimals(budget.totalAtmosphericLoss) = below

\* the totals of the default altitude of 20 km: 18 dB on the ground links,
\* nothing on the satellite link
C20_Witness ==
    /\ budget.computed
    /\ budget.hight = 20000
    /\ budget.totalAtmosphericLossGround = Db(18)
    /\ budget.totalAtmosphericLoss = Zero

----------------------------------------------------------------------------
(* C21 *)

\* the nominal free-space loss at 1 m of a channel: the literal of a ground
\* channel, 20 log10(f) + 20 log10(4 pi / c) of a satellite channel
NominalLossAt1m(ch) ==
    CASE ch = "wifiChannelA" -> TenthDb(RefLossWifiA)
      [] ch = "wifiChannelB" -> TenthDb(RefLossWifiB)
      [] OTHER -> RefLossAt1m(ChannelFreq(ch))

\* the total atmospheric loss of the link a channel carries
LinkAtmosphericLoss(ch) ==
    IF ch \in GroundChannels
    THEN budget.totalAtmosphericLossGround
    ELSE budget.totalAtmosphericLoss

\* C21: for every propagation channel of the Ka-band scenario (the two
\* ground Wi-Fi channels and the four satellite up/down channels) and every
\* platform altitude, the ReferenceLoss of the channel is its nominal
\* free-space loss at 1 m plus the total atmospheric loss of its link.
C21_ReferenceLossIncludesAtmosphere ==
    budget.computed =>
        \A ch \in Channels :
            budget.referenceLoss[ch] =
                FAdd(NominalLossAt1m(ch), LinkAtmosphericLoss(ch))

----------------------------------------------------------------------------
(* C22 *)

\* the inputs of the link budget as the program holds them
TxPower == Db(satTxPower)
TxAntennaGain == Db(satAntGain)
RxAntennaGain == Db(hapSatAntGain)

\* each input, computed back from the received power and the other inputs
RecoveredFspl ==
    FSub(FAdd(FSub(budget.eirpSat, budget.totalAtmosphericLoss), RxAntennaGain),
         budget.receivedPower)
RecoveredAtmosphericLoss ==
    FSub(FAdd(FSub(budget.eirpSat, budget.fsplHap1Sat), RxAntennaGain),
         budget.receivedPower)
RecoveredRxAntennaGain ==
    FAdd(FAdd(FSub(budget.receivedPower, budget.eirpSat), budget.fsplHap1Sat),
         budget.totalAtmosphericLoss)
RecoveredEirp ==
    FSub(FAdd(FAdd(budget.receivedPower, budget.fsplHap1Sat), budget.totalAtmosphericLoss),
         RxAntennaGain)
RecoveredTxPower == FAdd(FSub(RecoveredEirp, TxAntennaGain), Db(DbmToDbw))

\* a and b differ by no more than the rounding error of the chain of
\* additions: one spacing of the doubles at the magnitude of the largest
\* term, the FSPL
Near(a, b) == FLessEq(FAbs(FSub(a, b)), Ulp(budget.fsplHap1Sat))

\* the two equations of the budget
BudgetEquations ==
    /\ budget.eirpSat = FAdd(FSub(TxPower, Db(DbmToDbw)), TxAntennaGain)
    /\ budget.receivedPower =
          FAdd(FSub(FSub(budget.eirpSat, budget.fsplHap1Sat), budget.totalAtmosphericLoss),
               RxAntennaGain)

\* C22 (amended): EIRP (dBW) = txPower (dBm) - 30 + txAntennaGain and
\* receivedPower = EIRP - FSPL - atmosphericLoss + rxAntennaGain; from the
\* received power and all but one of the inputs the remaining input is
\* recovered up to the rounding error of the floating-point additions.
C22_BudgetInvertibleUpToRounding ==
    budget.computed =>
        /\ BudgetEquations
        /\ Near(RecoveredFspl, budget.fsplHap1Sat)
        /\ Near(RecoveredAtmosphericLoss, budget.totalAtmosphericLoss)
        /\ Near(RecoveredRxAntennaGain, RxAntennaGain)
        /\ Near(RecoveredEirp, budget.eirpSat)
        /\ Near(RecoveredTxPower, TxPower)

\* the claim as stated: the remaining input is recovered exactly
C22_BudgetInvertibleExactly ==
    budget.computed =>
        /\ BudgetEquations
        /\ RecoveredFspl = budget.fsplHap1Sat
        /\ RecoveredAtmosphericLoss = budget.totalAtmosphericLoss
        /\ RecoveredRxAntennaGain = RxAntennaGain
        /\ RecoveredEirp = budget.eirpSat
        /\ RecoveredTxPower = TxPower

\* a budget with an atmospheric loss on the satellite link, one of whose
\* inputs is not recovered exactly
C22_Witness ==
    /\ budget.computed
    /\ budget.totalAtmosphericLoss # Zero
    /\ budget.eirpSat = Db(70)
    /\ budget.receivedPower.neg
    /\ \/ RecoveredAtmosphericLoss # budget.totalAtmosphericLoss
       \/ RecoveredRxAntennaGain # RxAntennaGain

----------------------------------------------------------------------------
(* C23 *)

\* C23: every loss-ratio and throughput computation of the reports checks
\* its denominator (the transmitted packets; the time elapsed between the
\* first transmitted and the last received packet) before dividing, and
\* reports 0 or a placeholder when the denominator is zero.  No row of
\* FlowStatsRows has a zero denominator (txPackets >= 1; the elapsed time
\* is negative without a reception and positive with one), so the
\* zero-denominator branches of this formula are never exercised.
C23_DenominatorsChecked ==
    call.fn = "report" =>
        /\ call.row.lossRatio.kind \in {"finite", "placeholder"}
        /\ call.row.throughput.kind \in {"finite", "placeholder"}
        /\ call.stats.txPackets = 0 =>
              \/ call.row.lossRatio.kind = "placeholder"
              \/ call.row.lossRatio.num = 0
        /\ Elapsed(call.stats) = 0 =>
              \/ call.row.throughput.kind = "placeholder"
              \/ call.row.throughput.num = 0

----------------------------------------------------------------------------
(* C24 *)

\* C24: PhyRxDropCallback counts a drop under (source node, receiving node)
\* whenever the header parses and the source is registered, whatever the
\* destination of the frame (another node's interface or a group address
\* included), while PhyTxBeginCallback counts only frames with a registered
\* unicast destination, under (sender, addressed node); a state is therefore
\* reachable where rxDropped of a key is non-zero while its txPackets is 0.
C24_DropsCountedWhateverDestination ==
    Running =>
        \A dev \in traced : \A p \in PacketsAt(dev) :
            /\ (p.parses /\ p.addr2 \in DOMAIN g_macToNodeId) =>
                  LET after == PhyRxDropCallback(g_flowStats, g_macToNodeId, dev, p)
                      key == <<g_macToNodeId[p.addr2], Devices[dev].node>>
                  IN /\ key \in DOMAIN after
                     /\ after[key].rxDropped = Entry(g_flowStats, key).rxDropped + 1
            /\ LET sent == PhyTxBeginCallback(g_flowStats, g_macToNodeId, dev, p)
               IN IF IsGroup(p.addr1) \/ p.addr1 \notin DOMAIN g_macToNodeId
                  THEN sent = g_flowStats
                  ELSE \A k \in DOMAIN sent :
                          Entry(g_flowStats, k).txPackets # sent[k].txPackets
                              => k = <<Devices[dev].node, g_macToNodeId[p.addr1]>>

\* two drops at UT_1_2 of frames of UT_1_1 are counted under a key on which
\* nothing was transmitted
C24_Witness ==
    /\ Running
    /\ <<UT_1_1, UT_1_2>> \in DOMAIN g_flowStats
    /\ g_flowStats[<<UT_1_1, UT_1_2>>].rxDropped = 2
    /\ g_flowStats[<<UT_1_1, UT_1_2>>].txPackets = 0

----------------------------------------------------------------------------
(* C25 *)

\* the traced interfaces of a node
InterfacesOf(n) == {i \in traced : Devices[i].node = n}

\* the unicast frame interface s sends to interface d
UnicastFrame(s, d) == [parses |-> TRUE, addr1 |-> Devices[d].mac, addr2 |-> Devices[s].mac]

\* C25: flow keys are node identifiers, not interfaces: for a unicast frame
\* from any registered interface of node A to any registered interface of
\* node B, the transmit-begin event at A and the receive-success or
\* receive-drop event at B update the same key (A, B), so all interfaces of
\* a node share that node's keys.
C25_KeysAreNodeIds ==
    Running =>
        \A A \in NodeIds, B \in NodeIds :
            \A s \in InterfacesOf(A), d \in InterfacesOf(B) :
                LET p == UnicastFrame(s, d)
                IN /\ OnlyBumped(g_flowStats,
                                 PhyTxBeginCallback(g_flowStats, g_macToNodeId, s, p),
                                 <<A, B>>, "txPackets")
                   /\ OnlyBumped(g_flowStats,
                                 PhyRxEndCallback(g_flowStats, g_macToNodeId, d, p),
                                 <<A, B>>, "rxPackets")
                   /\ OnlyBumped(g_flowStats,
                                 PhyRxDropCallback(g_flowStats, g_macToNodeId, d, p),
                                 <<A, B>>, "rxDropped")

\* HAP_1 has three traced interfaces, and a transmission and a reception were
\* counted under the one key from HAP_1 to UT_1_1
C25_Witness ==
    /\ Running
    /\ Cardinality(InterfacesOf(HAP_1)) = 3
    /\ <<HAP_1, UT_1_1>> \in DOMAIN g_flowStats
    /\ g_flowStats[<<HAP_1, UT_1_1>>].txPackets = 1
    /\ g_flowStats[<<HAP_1, UT_1_1>>].rxPackets = 1

----------------------------------------------------------------------------
(* C26 *)

\* C26: in every state before the report, every entry of the flow-counter
\* map has at least one counter greater than zero (an entry is only created
\* by the increment that first touches it), so the non-zero filter of the
\* report never excludes an existing entry.
C26_EveryEntryHasTraffic ==
    pc # "reported" =>
        /\ \A k \in DOMAIN g_flowStats :
              \E f \in Fields : g_flowStats[k][f] > 0
        /\ Len(CollectKeys(g_flowStats)) = Cardinality(DOMAIN g_flowStats)

\* two entries exist before the report, each created by one event
C26_Witness ==
    /\ pc = "run"
    /\ Cardinality(DOMAIN g_flowStats) = 2
    /\ \A k \in DOMAIN g_flowStats :
          g_flowStats[k].txPackets + g_flowStats[k].rxPackets + g_flowStats[k].rxDropped = 1

----------------------------------------------------------------------------
(* C27 *)

\* C27: at every simulated time at most one UpdateHapState event is
\* pending: main schedules the first one once and each invocation
\* schedules at most one successor, so the chains never multiply and no
\* two ticks execute at the same simulated time (the pending one is later
\* than the last executed).
C27_AtMostOnePendingTick ==
    /\ Len(tickQueue) <= 1
    /\ variant = "unset" => tickQueue = <<>>
    /\ ~simStopped => \A i \in DOMAIN tickQueue : tickQueue[i] > simNow

\* the router scenario after its third tick, the fourth being the only
\* pending event
C27_Witness ==
    /\ variant = RouterVariant
    /\ tickCount = 3
    /\ Len(tickQueue) = 1
    /\ hapVel # <<0, 0, 0>>

----------------------------------------------------------------------------
(* C30 *)

\* a handle the task requires is null: g_hapMobility, or a PHY handle of a
\* dynamic-gain program
HandleMissing ==
    /\ variant # "unset"
    /\ \/ "g_hapMobility" \notin handles
       \/ /\ variant \in Variants
          /\ ("g_phyHapA" \notin handles \/ "g_phyHapB" \notin handles)

\* C30: when a required handle is unset as a tick fires (g_hapMobility in
\* every variant, g_phyHapA or g_phyHapB as well in the dynamic-gain
\* variants), UpdateHapState changes neither the velocity nor a gain and
\* does not reschedule, so no further tick runs: the only invocation is the
\* one main scheduled, and after it nothing is pending.
C30_NullHandleEndsTheTask ==
    HandleMissing =>
        /\ hapVel = <<0, 0, 0>>
        /\ phyHapA = SetGains(0)
        /\ phyHapB = SetGains(0)
        /\ variant = RouterVariant =>
              hapOrientation = [A |-> InitialOrientation * GainScale,
                                B |-> InitialOrientation * GainScale]
        /\ tickCount <= 1
        /\ tickCount = 1 => tickQueue = <<>>

\* the dynamic-gain scenario with g_phyHapB null and g_hapMobility set,
\* stopped after its single invocation
C30_Witness ==
    /\ variant = "dynamic"
    /\ handles = {"g_hapMobility", "g_phyHapA"}
    /\ tickCount = 1
    /\ tickQueue = <<>>
    /\ simStopped

----------------------------------------------------------------------------
(* C28 *)

\* the time at which the socket is closed when nothing stops the source
CloseTime == FirstSendTime + traffic.numPackets * traffic.pktInterval

\* the stop time of the run
RunStopTime == StopTime(traffic.program, traffic.numPackets, traffic.pktInterval)

\* a GenerateTraffic event is pending
TrafficPending ==
    \E i \in DOMAIN traffic.events : traffic.events[i].kind = "GenerateTraffic"

\* C28: GenerateTraffic started with pktCount = n performs exactly n sends,
\* consecutive sends exactly pktInterval apart, then closes the socket
\* exactly once, one interval after the last send (at once when n = 0), and
\* never sends after the close, provided the stop time is later than the
\* close.
C28_SendsThenClosesOnce ==
    (traffic.started /\ CloseTime < RunStopTime) =>
        /\ traffic.sent <= traffic.numPackets
        /\ traffic.sent >= 1 =>
              traffic.lastSend = FirstSendTime + (traffic.sent - 1) * traffic.pktInterval
        /\ traffic.closes <= 1
        /\ traffic.closes = 1 =>
              /\ traffic.sent = traffic.numPackets
              /\ traffic.closedAt = IF traffic.numPackets = 0 THEN FirstSendTime
                                    ELSE traffic.lastSend + traffic.pktInterval
              /\ ~TrafficPending
        /\ traffic.closes = 0 => TrafficPending
        /\ traffic.stopped => traffic.closes = 1

\* three packets at intervals of 265 ms were sent, the socket was closed
\* 265 ms after the third and the run has stopped
C28_Witness ==
    /\ traffic.started
    /\ traffic.numPackets = 3
    /\ traffic.pktInterval = 265
    /\ traffic.sent = 3
    /\ traffic.closes = 1
    /\ traffic.closedAt = 1795
    /\ traffic.stopped

----------------------------------------------------------------------------
(* C29 *)

\* C29: with the defaults of the long-run scenario (3600 packets at 1 s
\* intervals, the first at 1 s, the stop event scheduled before the run at
\* 3600 s, events of equal time run in scheduling order, nothing runs after
\* the stop) all 3600 packets are sent and the socket is closed before the
\* simulation stops.
C29_AllSentAndClosedBeforeStop ==
    (traffic.started /\ traffic.stopped) =>
        /\ traffic.sent = NumPacketsLong
        /\ traffic.closes = 1

====
